---- MODULE Spec2Model ----
(***************************************************************************)
(* Model of marketflow's data layer:                                       *)
(*   - the portfolio ledger (src/src/data/candleHelpers.ts, lines 136-251: *)
(*     createPortfolio, executeTrade, getPortfolioValue,                   *)
(*     getPortfolioReturn);                                                *)
(*   - the seeded random generator (src/src/utils.ts, seededRandom);       *)
(*   - the candle generator (src/src/data/candlestickData.ts,              *)
(*     generateCandlestickData);                                           *)
(*   - the candle cache (src/src/data/candleHelpers.ts, lines 49-134);     *)
(*   - the indicators (src/src/data/indicators.ts).                        *)
(*                                                                         *)
(* Each part has its own variables, initial condition and specification;   *)
(* a specification leaves the variables of the other parts at rest.        *)
(*                                                                         *)
(* Ledger objects live in a heap so that sharing and in-place writes are   *)
(* visible: Portfolio objects, positions arrays, Position objects and      *)
(* trades arrays each have an address (their index in the heap sequence    *)
(* that holds them).  Trade objects are never written after their creation *)
(* and are kept as values inside the trades arrays.                        *)
(*                                                                         *)
(* Numbers.  A finite JavaScript number x is the integer x * Scale: a      *)
(* binary fixed-point grid standing for the double grid.  Sums,            *)
(* differences and products with an integer operand are exact (as they are *)
(* for doubles far below 2^53); a quotient is rounded to the nearest grid  *)
(* point, ties to even, as IEEE-754 division rounds.  NaN and Infinity     *)
(* are tagged values.                                                      *)
(***************************************************************************)
EXTENDS Integers, Sequences, FiniteSets, TLC

VARIABLES
    portfolios,      \* heap of Portfolio objects
    positionArrays,  \* heap of positions arrays: sequences of Position addresses
    positionObjs,    \* heap of Position objects
    tradeArrays,     \* heap of trades arrays: sequences of Trade values
    now,             \* the millisecond clock read by Date.now()
    last,            \* the last executeTrade call: arguments, input before, result
    ret,             \* the getPortfolioReturn call: its Portfolio and its result
    rng,             \* a seededRandom closure: its seed, its state s, its last output
    gen,             \* the generateCandlestickData call: its arguments and its result
    candleCache,     \* the Map candleCache: entries in iteration order
    insertionOrder,  \* history: the cached keys in the order they were inserted
    inFlight,        \* getCandleDataAsync calls waiting for fetchCandlestickData
    today,           \* the instant new Date() reads, in hours
    lastGet,         \* the last cache operation and what it returned
    served,          \* history: per symbol, the full series getCandleData
                     \* first returned a slice of since the last clear
    ind,             \* the indicator call: its series, its period and its results
    mood,            \* the computeMarketMood call: its stocks and its result
    spark,           \* the generateSparkline call: its arguments and its result
    store,           \* the store's candle fields and the loadCandleData calls
                     \* waiting for getCandleDataAsync
    perf,            \* the performance monitor: its refs, its state and the
                     \* runs of samples seen
    refresh          \* the auto-refresh timer: the module variable, the timers
                     \* registered and the initLiveData calls in progress

vars ==
    <<portfolios, positionArrays, positionObjs, tradeArrays, now, last,
      ret, rng, gen, candleCache, insertionOrder, inFlight, today, lastGet,
      served, ind, mood, spark, store, perf, refresh>>

ledgerVars == <<portfolios, positionArrays, positionObjs, tradeArrays, now, last>>

cacheVars ==
    <<candleCache, insertionOrder, inFlight, today, lastGet, served>>

heapVars == <<portfolios, positionArrays, positionObjs, tradeArrays>>

otherVars == <<mood, spark, store, perf, refresh>>

----------------------------------------------------------------------------
\* Bounds of the model.

\* Number of fractional bits of the number grid.
FracBits == 3

\* Largest valid share count and price offered as call arguments.
MaxShares == 2

MaxPrice == 2

\* Number of Portfolio objects the heap may hold (calls stop when it is full).
MaxPortfolios == 4

\* Last clock value.
MaxClock == 2

\* Values drawn from one seededRandom generator.
MaxDraws == 5

\* Largest day count given to generateCandlestickData.
MaxDays == 4

\* Capacity of the candle cache (32 in the source) and days generated per
\* symbol (400 in the source), scaled down together with TIMEFRAME_DAYS.
MAX_CACHE_SIZE == 2

GENERATION_DAYS == 8

\* getCandleDataAsync calls that may wait at once, and midnights that may
\* pass while the cache lives.
MaxInFlight == 2

MaxDaysPassed == 1

\* Longest short candle series given to the indicators (series around the
\* MACD periods are given as well).
MaxLen == 5

\* Longest list of stocks given to computeMarketMood.
MaxStocks == 20

\* Significant bits of a double (53 in the source) and the unit 2^-UnitBits
\* its value is counted in.
FloatBits == 10

UnitBits == 12

\* Most loadCandleData calls waiting at once.
MaxLoads == 3

\* Number of FPS samples taken.
MaxSamples == 7

\* Number of initLiveData calls.
MaxInits == 3

----------------------------------------------------------------------------
\* Numbers.

Scale == 2 ^ FracBits

\* n / d rounded to the nearest integer, ties to even (d > 0).
RoundDiv(n, d) ==
    LET q == n \div d
        r == n % d
    IN  IF 2 * r < d THEN q
        ELSE IF 2 * r > d THEN q + 1
        ELSE IF q % 2 = 0 THEN q ELSE q + 1

Abs(x) == IF x < 0 THEN -x ELSE x

\* x * y and x / y on the grid.
Mul(x, y) == RoundDiv(x * y, Scale)

Div(x, y) == RoundDiv(x * Scale, y)

\* Call arguments: finite numbers, NaN, Infinity.
Fin(v) == [k |-> "fin", v |-> v]

NaN == [k |-> "NaN", v |-> 0]

Infinity == [k |-> "Infinity", v |-> 0]

\* Number.isFinite, Number.isInteger, x <= 0 on arguments.
isFinite(x) == x.k = "fin"

isInteger(x) == x.k = "fin" /\ x.v % Scale = 0

leqZero(x) == x.k = "fin" /\ x.v <= 0

----------------------------------------------------------------------------
\* Inputs.

Symbols == {"AAPL", "MSFT"}

TradeTypes == {"buy", "sell"}

\* Valid arguments: shares 1..MaxShares, price 1..MaxPrice.
ValidShares == {Fin(n * Scale) : n \in 1..MaxShares}

ValidPrices == {Fin(n * Scale) : n \in 1..MaxPrice}

\* Invalid shares: 0, -1, 1.5, NaN, Infinity.
InvalidShares ==
    {Fin(0), Fin(-Scale), Fin(Scale + Scale \div 2), NaN, Infinity}

\* Invalid prices: 0, -1, NaN, Infinity.
InvalidPrices == {Fin(0), Fin(-Scale), NaN, Infinity}

\* startingCash of createPortfolio: 0, 2 and 5.
StartingCashInputs == {0, 2 * Scale, 5 * Scale}

\* Math.random().toString(36).slice(2, 6): the random suffix of a Trade id.
RandomSuffixes == {"k3x9", "p07q"}

----------------------------------------------------------------------------
\* Sequence helpers.

\* Array.prototype.findIndex, 1-based; 0 when nothing matches (-1 in the code).
RECURSIVE findIndexFrom(_, _, _, _)
findIndexFrom(objs, arr, symbol, i) ==
    IF i > Len(arr) THEN 0
    ELSE IF objs[arr[i]].symbol = symbol THEN i
    ELSE findIndexFrom(objs, arr, symbol, i + 1)

\* Mutant: the search starts one entry too late.
findIndexSkipsFirst(objs, arr, symbol) == findIndexFrom(objs, arr, symbol, 2)

findIndex(objs, arr, symbol) == findIndexFrom(objs, arr, symbol, 1)

\* positions.filter((_, i) => i !== idx)
filterOut(arr, idx) ==
    [i \in 1..(Len(arr) - 1) |-> IF i < idx THEN arr[i] ELSE arr[i + 1]]

----------------------------------------------------------------------------
\* The heap as one value, and the value a Portfolio address stands for.

Heap ==
    [portfolios |-> portfolios, positionArrays |-> positionArrays,
     positionObjs |-> positionObjs, tradeArrays |-> tradeArrays]

EmptyHeap ==
    [portfolios |-> <<>>, positionArrays |-> <<>>,
     positionObjs |-> <<>>, tradeArrays |-> <<>>]

\* The contents reachable from Portfolio p: its fields, its Position objects
\* in array order, its trades in array order.
View(h, p) ==
    LET pf == h.portfolios[p]
        arr == h.positionArrays[pf.positions]
    IN  [cash |-> pf.cash,
         startingCash |-> pf.startingCash,
         positions |-> [i \in 1..Len(arr) |-> h.positionObjs[arr[i]]],
         trades |-> h.tradeArrays[pf.trades]]

----------------------------------------------------------------------------
\* createPortfolio(startingCash): a Portfolio with two fresh empty arrays.

createPortfolio(h, startingCash) ==
    [portfolios |->
        Append(h.portfolios,
               [cash |-> startingCash,
                positions |-> Len(h.positionArrays) + 1,
                trades |-> Len(h.tradeArrays) + 1,
                startingCash |-> startingCash]),
     positionArrays |-> Append(h.positionArrays, <<>>),
     positionObjs |-> h.positionObjs,
     tradeArrays |-> Append(h.tradeArrays, <<>>)]

----------------------------------------------------------------------------
\* executeTrade, piece by piece.

ErrShares == "Shares must be a positive integer"

ErrPrice == "Price must be a positive number"

ErrFunds == "Insufficient funds"

ErrSharesHeld == "Insufficient shares"

\* Mutant: the integer test left out.
invalidSharesNoIntegerTest(shares) == ~isFinite(shares) \/ leqZero(shares)

\* if (!Number.isFinite(shares) || shares <= 0 || !Number.isInteger(shares))
invalidShares(shares) ==
    ~isFinite(shares) \/ leqZero(shares) \/ ~isInteger(shares)

\* if (!Number.isFinite(price) || price <= 0)
invalidPrice(price) == ~isFinite(price) \/ leqZero(price)

\* Mutant: [...portfolio.positions], a new array of the same Position objects.
shallowCopyPositions(objs, arr) == [objs |-> objs, arr |-> arr]

\* portfolio.positions.map(p => ({ ...p })): a fresh Position object per entry.
copyPositions(objs, arr) ==
    [objs |-> objs \o [i \in 1..Len(arr) |-> objs[arr[i]]],
     arr |-> [i \in 1..Len(arr) |-> Len(objs) + i]]

\* Mutant: the funds comparison inverted.
insufficientFundsInverted(total, cash) == total < cash

\* Mutant: the funds comparison made non-strict.
insufficientFundsNonStrict(total, cash) == total >= cash

\* if (total > portfolio.cash)
insufficientFunds(total, cash) == total > cash

\* Mutant: the shares comparison made non-strict.
insufficientSharesNonStrict(objs, arr, idx, shares) ==
    idx = 0 \/ objs[arr[idx]].shares <= shares

\* if (!existing || existing.shares < shares); idx = 0 is "no position".
insufficientShares(objs, arr, idx, shares) ==
    idx = 0 \/ objs[arr[idx]].shares < shares

\* Mutant: the plain mean of the old average and the new price.
unweightedAvgCost(existing, shares, price) ==
    Div(existing.avgCost + price, 2 * Scale)

\* ((existing.avgCost * existing.shares) + (price * shares)) / totalShares
blendedAvgCost(existing, shares, price) ==
    Div(Mul(existing.avgCost, existing.shares) + Mul(price, shares),
        existing.shares + shares)

\* The Position a buy leaves for the symbol: the updated copy of the existing
\* one, or a new one.
boughtPosition(existing, symbol, shares, price) ==
    IF existing # <<>>
    THEN [existing[1] EXCEPT
              !.avgCost = blendedAvgCost(existing[1], shares, price),
              !.shares = existing[1].shares + shares,
              !.currentPrice = price]
    ELSE [symbol |-> symbol, shares |-> shares,
          avgCost |-> price, currentPrice |-> price]

\* Mutant: a partial sell also resets the average cost to the sale price.
soldPositionRepriced(existing, shares, price) ==
    [existing EXCEPT !.shares = existing.shares - shares,
                     !.currentPrice = price, !.avgCost = price]

\* { ...existing, shares: existing.shares - shares, currentPrice: price }
soldPosition(existing, shares, price) ==
    [existing EXCEPT !.shares = existing.shares - shares,
                     !.currentPrice = price]

\* The buy branch after the funds check, on the heap h that already holds
\* newPortfolio np with its copied positions array.
buyUpdate(h, np, symbol, shares, price, total) ==
    LET arrAddr == h.portfolios[np].positions
        arr == h.positionArrays[arrAddr]
        existingIdx == findIndex(h.positionObjs, arr, symbol)
        existing == IF existingIdx > 0
                    THEN <<h.positionObjs[arr[existingIdx]]>> ELSE <<>>
        obj == boughtPosition(existing, symbol, shares, price)
        addr == Len(h.positionObjs) + 1
    IN  [h EXCEPT
            !.portfolios[np].cash = @ - total,
            !.positionObjs = Append(@, obj),
            !.positionArrays[arrAddr] =
                IF existingIdx > 0 THEN [@ EXCEPT ![existingIdx] = addr]
                ELSE Append(@, addr)]

\* Mutant: the emptied position is kept.
sellUpdateKeepsEmpty(h, np, symbol, shares, price, total) ==
    LET arrAddr == h.portfolios[np].positions
        arr == h.positionArrays[arrAddr]
        existingIdx == findIndex(h.positionObjs, arr, symbol)
        existing == h.positionObjs[arr[existingIdx]]
    IN  [h EXCEPT
            !.portfolios[np].cash = @ + total,
            !.positionObjs = Append(@, soldPosition(existing, shares, price)),
            !.positionArrays[arrAddr][existingIdx] = Len(h.positionObjs) + 1]

\* The sell branch after the shares check.
sellUpdate(h, np, symbol, shares, price, total) ==
    LET arrAddr == h.portfolios[np].positions
        arr == h.positionArrays[arrAddr]
        existingIdx == findIndex(h.positionObjs, arr, symbol)
        existing == h.positionObjs[arr[existingIdx]]
        withCash == [h EXCEPT !.portfolios[np].cash = @ + total]
    IN  IF existing.shares = shares
        THEN [withCash EXCEPT
                 !.positionArrays = Append(@, filterOut(arr, existingIdx)),
                 !.portfolios[np].positions = Len(h.positionArrays) + 1]
        ELSE [withCash EXCEPT
                 !.positionObjs = Append(@, soldPosition(existing, shares, price)),
                 !.positionArrays[arrAddr][existingIdx] =
                     Len(h.positionObjs) + 1]

\* `T${Date.now()}-${Math.random().toString(36).slice(2, 6)}`
tradeId(t, rnd) == [time |-> t, suffix |-> rnd]

\* The Trade record of a successful call; t1 and t2 are the two Date.now()
\* reads (id first, timestamp second).
newTrade(symbol, type, shares, price, total, t1, t2, rnd) ==
    [id |-> tradeId(t1, rnd), symbol |-> symbol, type |-> type,
     shares |-> shares, price |-> price, timestamp |-> t2, total |-> total]

\* Mutant: newPortfolio.trades.unshift(trade)
unshiftTrade(h, np, trade) ==
    [h EXCEPT !.tradeArrays[h.portfolios[np].trades] = <<trade>> \o @]

\* newPortfolio.trades.push(trade)
pushTrade(h, np, trade) ==
    [h EXCEPT !.tradeArrays[h.portfolios[np].trades] = Append(@, trade)]

Failure(h, error, portfolio) ==
    [heap |-> h, success |-> FALSE, error |-> error, portfolio |-> portfolio]

Success(h, portfolio) ==
    [heap |-> h, success |-> TRUE, error |-> "", portfolio |-> portfolio]

\* executeTrade(portfolio, symbol, type, shares, price).  A failed call
\* returns before anything it allocated is reachable, so the heap is the
\* caller's.
executeTrade(h, portfolio, symbol, type, shares, price, t1, t2, rnd) ==
    IF invalidShares(shares) THEN Failure(h, ErrShares, portfolio)
    ELSE IF invalidPrice(price) THEN Failure(h, ErrPrice, portfolio)
    ELSE
      LET total == Mul(shares.v, price.v)
          old == h.portfolios[portfolio]
          copied == copyPositions(h.positionObjs,
                                  h.positionArrays[old.positions])
          np == Len(h.portfolios) + 1
          h1 == [portfolios |->
                     Append(h.portfolios,
                            [old EXCEPT
                                !.positions = Len(h.positionArrays) + 1,
                                !.trades = Len(h.tradeArrays) + 1]),
                 positionArrays |-> Append(h.positionArrays, copied.arr),
                 positionObjs |-> copied.objs,
                 tradeArrays |->
                     Append(h.tradeArrays, h.tradeArrays[old.trades])]
          trade == newTrade(symbol, type, shares.v, price.v, total, t1, t2, rnd)
      IN  IF type = "buy"
          THEN IF insufficientFunds(total, old.cash)
               THEN Failure(h, ErrFunds, portfolio)
               ELSE Success(
                        pushTrade(
                            buyUpdate(h1, np, symbol, shares.v, price.v, total),
                            np, trade),
                        np)
          ELSE LET arr == h1.positionArrays[h1.portfolios[np].positions]
                   existingIdx == findIndex(h1.positionObjs, arr, symbol)
               IN  IF insufficientShares(h1.positionObjs, arr, existingIdx,
                                         shares.v)
                   THEN Failure(h, ErrSharesHeld, portfolio)
                   ELSE Success(
                            pushTrade(
                                sellUpdate(h1, np, symbol, shares.v, price.v,
                                           total),
                                np, trade),
                            np)

----------------------------------------------------------------------------
\* getPortfolioValue and getPortfolioReturn.  They take any Portfolio value,
\* so their numbers are tagged: a finite grid value, or NaN, or Infinity
\* (whose sign is not tracked: only Number.isFinite observes it).

numAdd(x, y) ==
    IF isFinite(x) /\ isFinite(y) THEN Fin(x.v + y.v)
    ELSE IF x.k = "NaN" \/ y.k = "NaN" THEN NaN ELSE Infinity

numSub(x, y) ==
    IF isFinite(x) /\ isFinite(y) THEN Fin(x.v - y.v)
    ELSE IF isFinite(x) \/ isFinite(y)
         THEN (IF x.k = "NaN" \/ y.k = "NaN" THEN NaN ELSE Infinity)
         ELSE NaN

numMul(x, y) ==
    IF isFinite(x) /\ isFinite(y) THEN Fin(Mul(x.v, y.v))
    ELSE IF x.k = "NaN" \/ y.k = "NaN" THEN NaN
    ELSE IF (isFinite(x) /\ x.v = 0) \/ (isFinite(y) /\ y.v = 0) THEN NaN
    ELSE Infinity

numDiv(x, y) ==
    IF isFinite(x) /\ isFinite(y)
    THEN (IF y.v > 0 THEN Fin(Div(x.v, y.v))
          ELSE IF y.v < 0 THEN Fin(Div(-x.v, -y.v))
          ELSE IF x.v = 0 THEN NaN ELSE Infinity)
    ELSE IF x.k = "NaN" \/ y.k = "NaN" THEN NaN
    ELSE IF isFinite(x) THEN Fin(0)
    ELSE IF isFinite(y) THEN Infinity ELSE NaN

\* x > 0
gtZero(x) == (isFinite(x) /\ x.v > 0) \/ x.k = "Infinity"

\* positions.reduce((sum, p) => sum + p.shares * p.currentPrice, 0)
RECURSIVE positionsValueFrom(_, _, _)
positionsValueFrom(positions, i, sum) ==
    IF i > Len(positions) THEN sum
    ELSE positionsValueFrom(
             positions, i + 1,
             numAdd(sum, numMul(positions[i].shares, positions[i].currentPrice)))

getPortfolioValue(portfolio) ==
    LET positionsValue == positionsValueFrom(portfolio.positions, 1, Fin(0))
        total == numAdd(portfolio.cash, positionsValue)
    IN  IF isFinite(total) THEN total ELSE portfolio.cash

\* Mutant: the percentage without its startingCash > 0 test.
percentUnguarded(absolute, startingCash) ==
    numMul(numDiv(absolute, startingCash), Fin(100 * Scale))

\* portfolio.startingCash > 0 ? (absolute / portfolio.startingCash) * 100 : 0
percentOf(absolute, startingCash) ==
    IF gtZero(startingCash)
    THEN numMul(numDiv(absolute, startingCash), Fin(100 * Scale))
    ELSE Fin(0)

getPortfolioReturn(portfolio) ==
    LET currentValue == getPortfolioValue(portfolio)
        absolute == numSub(currentValue, portfolio.startingCash)
        percent == percentOf(absolute, portfolio.startingCash)
    IN  [absolute |-> IF isFinite(absolute) THEN absolute ELSE Fin(0),
         percent |-> IF isFinite(percent) THEN percent ELSE Fin(0)]

\* The Portfolio values getPortfolioReturn is applied to: any cash and
\* startingCash, negative and zero included, no position or one position
\* whose currentPrice may be NaN.
ReturnPositions ==
    {<<>>} \cup
    {<<[symbol |-> "AAPL", shares |-> Fin(n * Scale), avgCost |-> Fin(Scale),
        currentPrice |-> c]>> :
        n \in 1..MaxShares, c \in {Fin(m * Scale) : m \in 1..MaxPrice} \cup {NaN}}

ReturnPortfolios ==
    [cash : {Fin(-Scale), Fin(0), Fin(3 * Scale)},
     startingCash : {Fin(-Scale), Fin(0), Fin(2 * Scale), Fin(3 * Scale)},
     positions : ReturnPositions,
     trades : {<<>>}]

----------------------------------------------------------------------------
\* seededRandom (src/src/utils.ts).  The state s and the seed are integers
\* below 2^31 in magnitude, for which the double product s * 16807 is exact
\* (it is below 2^53); the product is computed here without leaving 32 bits
\* (Schrage's decomposition), which gives the same remainder.

Multiplier == 16807

Modulus == 2147483647

OutputDivisor == 2147483646

\* (s * 16807) % 2147483647 for 0 <= s < 2147483647.
mulMod(s) ==
    LET q == Modulus \div Multiplier
        r == Modulus % Multiplier
        t == Multiplier * (s % q) - r * (s \div q)
    IN  IF t < 0 THEN t + Modulus ELSE t

\* s = (s * 16807 + 0) % 2147483647; the remainder of JavaScript takes the
\* sign of the dividend.
nextState(s) ==
    IF s >= 0 THEN mulMod(s % Modulus) ELSE -mulMod((-s) % Modulus)

\* (s - 1) / 2147483646, kept as the exact fraction: the double it rounds
\* to is 0 exactly when num is 0, negative exactly when num is negative and
\* below 1 exactly when num < den.
randomValue(s) == [num |-> s - 1, den |-> OutputDivisor]

\* A symbol is the sequence of its character codes.
SymbolCodes ==
    {<<>>,                        \* ""
     <<86>>,                      \* "V"
     <<80, 71>>,                  \* "PG"
     <<74, 80, 77>>,              \* "JPM"
     <<74, 78, 74>>,              \* "JNJ"
     <<88, 79, 77>>,              \* "XOM"
     <<65, 65, 80, 76>>,          \* "AAPL"
     <<77, 83, 70, 84>>,          \* "MSFT"
     <<78, 86, 68, 65>>,          \* "NVDA"
     <<84, 83, 76, 65>>,          \* "TSLA"
     <<77, 69, 84, 65>>,          \* "META"
     <<84, 69, 83, 84>>,          \* "TEST"
     <<71, 79, 79, 71, 76>>}      \* "GOOGL"

SeedFactor == 31337

\* symbol.split('').reduce((a, c) => a + c.charCodeAt(0), 0) * 31337
RECURSIVE charCodeSum(_, _, _)
charCodeSum(symbol, i, a) ==
    IF i > Len(symbol) THEN a ELSE charCodeSum(symbol, i + 1, a + symbol[i])

symbolSeed(symbol) == charCodeSum(symbol, 1, 0) * SeedFactor

\* The seeds seededRandom is created with: integers of either sign, the
\* ends of the state range, and the seed of every symbol above.
SeedInputs ==
    {-1, 0, 1, 12345, 99999, 1407677000, 2147483646, 2147483647}
        \cup {symbolSeed(symbol) : symbol \in SymbolCodes}

----------------------------------------------------------------------------
\* generateCandlestickData (src/src/data/candlestickData.ts).
\*
\* Prices, rates and random values are decimal fixed-point numbers: the
\* integer x * GenScale.  A product is rounded to the grid.  Math.log,
\* Math.sqrt and Math.cos are tabulated.  A candle holds its prices in cents
\* (what toFixed(2) leaves) and its volume in units of 10^4 shares, each as
\* a tagged number, since a random value that is not positive makes them
\* NaN or Infinity.
\*
\* A Date is an instant in hours since 1970-01-01T00:00Z; the local zone is
\* a fixed offset in hours (no daylight saving).

GenScale == 10 ^ 4

\* x * y on the grid, computed in parts so that no partial product leaves 32
\* bits; rounded half away from zero.
mulG(x, y) ==
    LET ax == Abs(x)
        ay == Abs(y)
        xh == ax \div GenScale
        xl == ax % GenScale
        yh == ay \div GenScale
        yl == ay % GenScale
        m == xh * yh * GenScale + xh * yl + xl * yh
                 + (xl * yl + GenScale \div 2) \div GenScale
    IN  IF (x < 0) = (y < 0) THEN m ELSE -m

\* Number(x.toFixed(2)), in cents: round half up on the magnitude.
toFixed2(x) ==
    LET c == (Abs(x) + GenScale \div 200) \div (GenScale \div 100)
    IN  IF x < 0 THEN -c ELSE c

\* A random value on the grid (truncated).
onGrid(u) ==
    IF u.num >= 0 THEN u.num \div (u.den \div GenScale)
    ELSE -((-u.num) \div (u.den \div GenScale))

\* Math.sqrt(-2 * Math.log(u1)) for 0 < u1 < 1, tabulated.
radius(u1) ==
    LET u == onGrid(u1)
    IN  IF u >= 9000 THEN 3200
        ELSE IF u >= 7000 THEN 6700
        ELSE IF u >= 5000 THEN 10100
        ELSE IF u >= 3000 THEN 13500
        ELSE IF u >= 1000 THEN 17900
        ELSE IF u >= 100 THEN 26500
        ELSE IF u >= 1 THEN 37200
        ELSE 45000

\* Math.cos(2 * Math.PI * u2), tabulated by eighths of a turn.
cosTurn(u2) ==
    LET sector == (Abs(onGrid(u2)) \div (GenScale \div 8)) % 8
    IN  <<9239, 3827, -3827, -9239, -9239, -3827, 3827, 9239>>[sector + 1]

\* date.getDay() reads the local calendar; date.toISOString().slice(0, 10)
\* is the UTC calendar day (a day number; 1970-01-01, day 0, was a
\* Thursday).  Day 0 of the week is Sunday, day 6 Saturday.
weekday(day) == (day + 4) % 7

getDay(date, tz) == weekday((date + tz) \div 24)

isoDate(date) == date \div 24

Max(a, b) == IF a >= b THEN a ELSE b

Min(a, b) == IF a <= b THEN a ELSE b

\* The candle of one weekday and the price carried to the next, when the
\* price is finite and u1 is positive.
finiteCandle(date, price, u1, u2, u3, u4, u5, volatility, trend) ==
    LET normal == mulG(radius(u1), cosTurn(u2))
        dailyReturn == trend + mulG(normal, volatility)
        open == price
        close == mulG(open, GenScale + dailyReturn)
        wickUp ==
            Abs(mulG(mulG(mulG(normal, volatility), GenScale \div 2), onGrid(u3)))
        wickDown ==
            Abs(mulG(mulG(mulG(normal, volatility), GenScale \div 2), onGrid(u4)))
        high == mulG(Max(open, close), GenScale + wickUp)
        low == mulG(Min(open, close), GenScale - wickDown)
        baseVol == 1000 + mulG(onGrid(u5), 4000)
        volMult == GenScale + Abs(dailyReturn) * 20
        volume == mulG(baseVol, volMult)
    IN  [price |-> Fin(close),
         candle |-> [time |-> isoDate(date),
                     open |-> Fin(toFixed2(open)),
                     high |-> Fin(toFixed2(high)),
                     low |-> Fin(toFixed2(low)),
                     close |-> Fin(toFixed2(close)),
                     volume |-> Fin(volume)]]

\* The same when Math.log(u1) is NaN (u1 < 0) or -Infinity (u1 = 0), or the
\* price is no longer finite: everything computed from them is not finite.
nonFiniteCandle(date, price, u1) ==
    LET bad == IF ~isFinite(price) THEN price
               ELSE IF u1.num < 0 THEN NaN ELSE Infinity
    IN  [price |-> bad,
         candle |-> [time |-> isoDate(date),
                     open |-> IF isFinite(price) THEN Fin(toFixed2(price.v))
                              ELSE price,
                     high |-> bad, low |-> bad, close |-> bad,
                     volume |-> bad]]

\* The loop body for i, i + 1, ..., days - 1; s is the state of rand.
RECURSIVE generateFrom(_, _, _, _, _)
generateFrom(i, s, price, candles, a) ==
    IF i >= a.days THEN candles
    ELSE LET date == a.startDate + 24 * i
             dow == getDay(date, a.tz)
         IN  IF dow = 0 \/ dow = 6
             THEN generateFrom(i + 1, s, price, candles, a)
             ELSE LET s1 == nextState(s)
                      s2 == nextState(s1)
                      s3 == nextState(s2)
                      s4 == nextState(s3)
                      s5 == nextState(s4)
                      u1 == randomValue(s1)
                      c == IF isFinite(price) /\ u1.num > 0
                           THEN finiteCandle(date, price.v, u1,
                                             randomValue(s2), randomValue(s3),
                                             randomValue(s4), randomValue(s5),
                                             a.volatility, a.trend)
                           ELSE nonFiniteCandle(date, price, u1)
                  IN  generateFrom(i + 1, s5, c.price,
                                   Append(candles, c.candle), a)

\* generateCandlestickData(symbol, startPrice, days, volatility, trend) when
\* new Date() is the instant clock in the zone tz.
generateCandlestickData(symbol, startPrice, days, volatility, trend, clock, tz) ==
    generateFrom(0, symbolSeed(symbol), Fin(startPrice), <<>>,
                 [days |-> days, volatility |-> volatility, trend |-> trend,
                  startDate |-> clock - 24 * days, tz |-> tz])

\* Arguments of the generator: symbols, a price of 0.004 and one of 10, a
\* volatility of 2% and one of 200%, a trend of 0.03%, every day count up
\* to MaxDays and one below 0.
GenSymbols ==
    {<<>>, <<86>>, <<65, 65, 80, 76>>, <<84, 83, 76, 65>>}

GenPrices == {40, 10 * GenScale}

GenVolatilities == {200, 2 * GenScale}

GenTrends == {3}

GenDays == {-1} \cup 0..MaxDays

\* new Date(): every weekday at 03:00, 12:00 and 21:00 UTC.
GenClocks == {24 * d + h : d \in 0..6, h \in {3, 12, 21}}

\* Zone offsets: UTC-8, UTC, UTC+9.
GenZones == {-8, 0, 9}

----------------------------------------------------------------------------
\* The candle cache (src/src/data/candleHelpers.ts, lines 49-134).  The Map
\* is the sequence of its entries in iteration order, which for a Map is
\* the order of insertion of the keys; a key is a string, here the sequence
\* of its character codes.

Timeframes == {"1M", "3M", "6M", "1Y"}

\* 30, 90, 180 and 365 in the source: like there, only the longest exceeds
\* the number of weekdays in GENERATION_DAYS days.
TIMEFRAME_DAYS == ("1M" :> 2) @@ ("3M" :> 3) @@ ("6M" :> 5) @@ ("1Y" :> 7)

\* The symbols asked for: "V" (a preset), "PG" (no preset) and "V_live".
CacheSymbols == {<<86>>, <<80, 71>>, <<86, 95, 108, 105, 118, 101>>}

\* `${symbol}_live`
liveKey(symbol) == symbol \o <<95, 108, 105, 118, 101>>

DEFAULT_PRESET == [price |-> 100 * GenScale, volatility |-> 200, trend |-> 3]

\* STOCK_PRESETS[symbol] || DEFAULT_PRESET
presetOf(symbol) ==
    IF symbol = <<86>>
    THEN [price |-> 2856000, volatility |-> 130, trend |-> 3]
    ELSE DEFAULT_PRESET

\* Index of the entry of key, 0 when the Map has none.
mapIndex(m, key) ==
    IF \E i \in 1..Len(m) : m[i].key = key
    THEN CHOOSE i \in 1..Len(m) : m[i].key = key
    ELSE 0

\* Mutant: a read moves the entry it finds to the end of the Map.
mapAfterGetMovesToEnd(m, idx) ==
    [i \in 1..Len(m) |->
        IF i < idx THEN m[i] ELSE IF i < Len(m) THEN m[i + 1] ELSE m[idx]]

\* The Map after candleCache.get found entry idx: a read moves nothing.
mapAfterGet(m, idx) == m

\* candleCache.set(key, data): a new key goes to the end, an existing key
\* keeps its place.
mapSet(m, key, data) ==
    LET idx == mapIndex(m, key)
    IN  IF idx > 0 THEN [m EXCEPT ![idx].data = data]
        ELSE Append(m, [key |-> key, data |-> data])

\* Mutant: eviction starts one entry too late.
evictAboveCapacity(m) ==
    IF Len(m) > MAX_CACHE_SIZE THEN Tail(m) ELSE m

\* if (candleCache.size >= MAX_CACHE_SIZE) delete the first key
evictOldest(m) ==
    IF Len(m) >= MAX_CACHE_SIZE THEN Tail(m) ELSE m

\* Mutant: the first `days` candles.
sliceHead(allData, days) == SubSeq(allData, 1, Min(days, Len(allData)))

\* allData.slice(-days), days > 0
slice(allData, days) ==
    SubSeq(allData, Len(allData) - Min(days, Len(allData)) + 1, Len(allData))

\* The instants new Date() may read while the cache lives: noon of a
\* Thursday and of the days after it.
CacheClocks == {12 + 24 * d : d \in 0..MaxDaysPassed}

\* generateCandlestickData(symbol, preset.price * 0.7, GENERATION_DAYS,
\* preset.volatility, preset.trend) at each of these instants, zone UTC.
generatedSeries ==
    [symbol \in CacheSymbols, clock \in CacheClocks |->
        LET preset == presetOf(symbol)
        IN  generateCandlestickData(symbol, mulG(preset.price, 7000),
                                    GENERATION_DAYS, preset.volatility,
                                    preset.trend, clock, 0)]

\* The keys of a Map, and a sequence of keys without some of them.
keysOf(m) == {m[i].key : i \in 1..Len(m)}

without(order, keys) == SelectSeq(order, LAMBDA k : k \notin keys)

\* getFullCandleData(symbol) on the Map m at the instant clock (zone UTC):
\* the Map it leaves, the series it returns, the key it set and the keys it
\* deleted.
getFullCandleData(m, symbol, clock) ==
    LET idx == mapIndex(m, symbol)
    IN  IF idx > 0
        THEN [cache |-> mapAfterGet(m, idx), allData |-> m[idx].data,
              miss |-> FALSE, key |-> symbol, removed |-> {}]
        ELSE LET allData == generatedSeries[symbol, clock]
             IN  [cache |-> mapSet(evictOldest(m), symbol, allData),
                  allData |-> allData, miss |-> TRUE, key |-> symbol,
                  removed |-> keysOf(m) \ keysOf(evictOldest(m))]

\* getCandleData(symbol, timeframe)
getCandleData(m, symbol, timeframe, clock) ==
    LET full == getFullCandleData(m, symbol, clock)
    IN  [full EXCEPT !.allData = full.allData] @@
        [candles |-> slice(full.allData, TIMEFRAME_DAYS[timeframe]),
         isLive |-> FALSE]

\* What the awaited fetchCandlestickData(symbol, GENERATION_DAYS) gives:
\* it rejects, or resolves to null, to an empty array or to bars.
liveBars(symbol) ==
    [i \in 1..3 |->
        [time |-> i, open |-> Fin(100 * Len(symbol)),
         high |-> Fin(100 * Len(symbol) + i),
         low |-> Fin(100 * Len(symbol) - i),
         close |-> Fin(100 * Len(symbol)), volume |-> Fin(1000)]]

FetchResults(symbol) ==
    {[k |-> "rejects", data |-> <<>>], [k |-> "null", data |-> <<>>],
     [k |-> "bars", data |-> <<>>], [k |-> "bars", data |-> liveBars(symbol)]}

\* getCandleDataAsync(symbol, timeframe) before its await: the cached live
\* series, if any.
beforeFetch(m, symbol, timeframe) ==
    LET idx == mapIndex(m, liveKey(symbol))
    IN  IF idx > 0
        THEN [cached |-> TRUE, cache |-> mapAfterGet(m, idx),
              allData |-> m[idx].data, miss |-> FALSE,
              key |-> liveKey(symbol), removed |-> {},
              candles |-> slice(m[idx].data, TIMEFRAME_DAYS[timeframe]),
              isLive |-> TRUE]
        ELSE [cached |-> FALSE]

\* getCandleDataAsync(symbol, timeframe) after its await, with realData.
afterFetch(m, symbol, timeframe, realData, clock) ==
    IF realData.k = "bars" /\ Len(realData.data) > 0
    THEN [cache |-> mapSet(evictOldest(m), liveKey(symbol), realData.data),
          allData |-> realData.data, miss |-> TRUE,
          key |-> liveKey(symbol),
          removed |-> keysOf(m) \ keysOf(evictOldest(m)),
          candles |-> slice(realData.data, TIMEFRAME_DAYS[timeframe]),
          isLive |-> TRUE]
    ELSE getCandleData(m, symbol, timeframe, clock)

----------------------------------------------------------------------------
\* The indicators (src/src/data/indicators.ts).  A series is a sequence of
\* candles of which only time and close are read; closes and indicator
\* values are numbers on the grid of the generator (x * GenScale), and
\* Number(x.toFixed(2)) is a grid value with two decimals.

\* x / y on the grid for x >= 0 and y > 0, digit by digit so that nothing
\* leaves 32 bits; k digits are still to come.
RECURSIVE fracDigits(_, _, _, _)
fracDigits(r, y, k, acc) ==
    IF k = 0 THEN acc + (IF 2 * r >= y THEN 1 ELSE 0)
    ELSE fracDigits((r * 10) % y, y, k - 1, acc * 10 + (r * 10) \div y)

divG(x, y) ==
    LET q == (Abs(x) \div Abs(y)) * GenScale + fracDigits(Abs(x) % Abs(y), Abs(y), 4, 0)
    IN  IF (x < 0) = (y < 0) THEN q ELSE -q

\* Number(x.toFixed(2)) as a grid value.
fix2(x) == toFixed2(x) * (GenScale \div 100)

\* Math.sqrt on the grid: the largest r with r * r <= x * GenScale.
RECURSIVE sqrtBetween(_, _, _)
sqrtBetween(n, lo, hi) ==
    IF lo >= hi THEN lo
    ELSE LET mid == (lo + hi + 1) \div 2
         IN  IF mid * mid <= n THEN sqrtBetween(n, mid, hi)
             ELSE sqrtBetween(n, lo, mid - 1)

sqrtG(x) == sqrtBetween(x * GenScale, 0, 46340)

\* sum of data[i].close for i in from..to
RECURSIVE sumCloses(_, _, _)
sumCloses(data, from, to) ==
    IF from > to THEN 0 ELSE data[from].close + sumCloses(data, from + 1, to)

\* Mutant: a series of exactly `period` candles counts as too short.
noWindowAtPeriod(data, period) == period <= 0 \/ Len(data) <= period

\* period <= 0 || data.length < period
noWindow(data, period) == period <= 0 \/ Len(data) < period

\* period <= 0 || data.length < period + 1
noChanges(data, period) == period <= 0 \/ Len(data) < period + 1

\* The sums of calculateSMA are doubles, and a sum of doubles is rounded.
\* Here a double is a binary floating-point number with FloatBits
\* significant bits, kept as an integer count of units of 2^-UnitBits.

\* The exponent e >= 0 at which a / den has at most FloatBits bits above
\* 2^e.
RECURSIVE exponentOf(_, _, _)
exponentOf(a, den, e) ==
    IF a < den * 2 ^ (FloatBits + e) THEN e ELSE exponentOf(a, den, e + 1)

\* The double nearest to num / den (den > 0), ties to even.
roundQ(num, den) ==
    LET e == exponentOf(Abs(num), den, 0)
        m == RoundDiv(Abs(num), den * 2 ^ e) * 2 ^ e
    IN  IF num < 0 THEN -m ELSE m

\* The double a close given on the decimal grid is stored as.
toDouble(c) == roundQ(c * 2 ^ UnitBits, GenScale)

addF(x, y) == roundQ(x + y, 1)

subF(x, y) == roundQ(x - y, 1)

divF(x, n) == roundQ(x, n)

\* Number(x.toFixed(2)) of a double, as a value of the decimal grid; the
\* digits of toFixed are those of the exact value, ties upward in magnitude.
fix2F(x) ==
    LET c == (Abs(x) * 100 + 2 ^ (UnitBits - 1)) \div 2 ^ UnitBits
    IN  (IF x < 0 THEN -c ELSE c) * (GenScale \div 100)

\* sum += data[i].close for i in from..to, with whether every addition
\* was exact.
RECURSIVE sumClosesF(_, _, _, _)
sumClosesF(data, from, to, acc) ==
    IF from > to THEN acc
    ELSE LET c == toDouble(data[from].close)
         IN  sumClosesF(data, from + 1, to,
                        [sum |-> addF(acc.sum, c),
                         exact |-> acc.exact /\ addF(acc.sum, c) = acc.sum + c])

\* A point of calculateSMA; whether its sum was computed without rounding
\* is kept with it.
smaPoint(time, acc, period) ==
    [time |-> time, value |-> fix2F(divF(acc.sum, period)), exact |-> acc.exact]

\* Mutant: the update subtracts the oldest close still in the window.
RECURSIVE smaFromKeepingOldest(_, _, _, _, _)
smaFromKeepingOldest(data, period, i, acc, result) ==
    IF i > Len(data) THEN result
    ELSE LET diff == subF(toDouble(data[i].close),
                          toDouble(data[i - period + 1].close))
             next == [sum |-> addF(acc.sum, diff), exact |-> acc.exact]
         IN  smaFromKeepingOldest(data, period, i + 1, next,
                                  Append(result, smaPoint(data[i].time, next, period)))

\* The second loop of calculateSMA from candle i (1-based) on.
RECURSIVE smaFrom(_, _, _, _, _)
smaFrom(data, period, i, acc, result) ==
    IF i > Len(data) THEN result
    ELSE LET added == toDouble(data[i].close)
             removed == toDouble(data[i - period].close)
             diff == subF(added, removed)
             next == [sum |-> addF(acc.sum, diff),
                      exact |-> /\ acc.exact
                                /\ diff = added - removed
                                /\ addF(acc.sum, diff) = acc.sum + diff]
         IN  smaFrom(data, period, i + 1, next,
                     Append(result, smaPoint(data[i].time, next, period)))

calculateSMA(data, period) ==
    IF noWindow(data, period) THEN <<>>
    ELSE LET acc == sumClosesF(data, 1, period, [sum |-> 0, exact |-> TRUE])
         IN  smaFrom(data, period, period + 1, acc,
                     <<smaPoint(data[period].time, acc, period)>>)

\* The earlier calculateSMA (src/src/data/candlestickData.ts): the closes
\* of each window are sliced out and summed from 0.  A period <= 0 reads
\* data[-1].time, which throws.
RECURSIVE slicesFrom(_, _, _, _)
slicesFrom(data, period, i, result) ==
    IF i > Len(data) THEN result
    ELSE slicesFrom(data, period, i + 1,
                    Append(result,
                           smaPoint(data[i].time,
                                    sumClosesF(data, i - period + 1, i,
                                               [sum |-> 0, exact |-> TRUE]),
                                    period)))

calculateSMABySlices(data, period) ==
    IF period <= 0 THEN "TypeError" ELSE slicesFrom(data, period, period, <<>>)

\* The second loop of calculateEMA from candle i on.
RECURSIVE emaFrom(_, _, _, _, _)
emaFrom(data, multiplier, i, ema, result) ==
    IF i > Len(data) THEN result
    ELSE LET next == mulG(data[i].close - ema, multiplier) + ema
         IN  emaFrom(data, multiplier, i + 1, next,
                     Append(result, [time |-> data[i].time,
                                     value |-> fix2(next)]))

calculateEMA(data, period) ==
    IF noWindow(data, period) THEN <<>>
    ELSE LET multiplier == RoundDiv(2 * GenScale, period + 1)
             ema == RoundDiv(sumCloses(data, 1, period), period)
         IN  emaFrom(data, multiplier, period + 1, ema,
                     <<[time |-> data[period].time, value |-> fix2(ema)]>>)

\* changes[i] (1-based) = data[i + 1].close - data[i].close
change(data, i) == data[i + 1].close - data[i].close

RECURSIVE sumGains(_, _, _)
sumGains(data, from, to) ==
    IF from > to THEN 0
    ELSE (IF change(data, from) > 0 THEN change(data, from) ELSE 0)
             + sumGains(data, from + 1, to)

RECURSIVE sumLosses(_, _, _)
sumLosses(data, from, to) ==
    IF from > to THEN 0
    ELSE (IF change(data, from) > 0 THEN 0 ELSE Abs(change(data, from)))
             + sumLosses(data, from + 1, to)

\* A point of calculateRSI; the averages it was computed from are kept
\* with it.
rsiPoint(time, value, avgGain, avgLoss) ==
    [time |-> time, value |-> fix2(value), avgGain |-> avgGain,
     avgLoss |-> avgLoss]

\* The second loop of calculateRSI from change i on.
RECURSIVE rsiFrom(_, _, _, _, _, _)
rsiFrom(data, period, i, avgGain, avgLoss, result) ==
    IF i > Len(data) - 1 THEN result
    ELSE LET gain == IF change(data, i) > 0 THEN change(data, i) ELSE 0
             loss == IF change(data, i) < 0 THEN Abs(change(data, i)) ELSE 0
             g == RoundDiv(avgGain * (period - 1) + gain, period)
             l == RoundDiv(avgLoss * (period - 1) + loss, period)
             rsi == IF l = 0 THEN 100 * GenScale
                    ELSE 100 * GenScale
                             - divG(100 * GenScale, GenScale + divG(g, l))
         IN  rsiFrom(data, period, i + 1, g, l,
                     Append(result, rsiPoint(data[i + 1].time, rsi, g, l)))

calculateRSI(data, period) ==
    IF noChanges(data, period) THEN <<>>
    ELSE LET avgGain == RoundDiv(sumGains(data, 1, period), period)
             avgLoss == RoundDiv(sumLosses(data, 1, period), period)
             rs == IF avgLoss = 0 THEN 100 * GenScale
                   ELSE divG(avgGain, avgLoss)
             first == 100 * GenScale - divG(100 * GenScale, GenScale + rs)
         IN  rsiFrom(data, period, period + 1, avgGain, avgLoss,
                     <<rsiPoint(data[period + 1].time, first, avgGain, avgLoss)>>)

\* The points of calculateBollingerBands from candle i on; sum and sumSq
\* are those of the window ending at candle i - 1.
RECURSIVE bollingerFrom(_, _, _, _, _, _, _)
bollingerFrom(data, period, stdDev, i, sum, sumSq, bands) ==
    IF i > Len(data) THEN bands
    ELSE LET first == i = period
             s1 == IF first THEN sum
                   ELSE sum + data[i].close - data[i - period].close
             s2 == IF first THEN sumSq
                   ELSE sumSq + mulG(data[i].close, data[i].close)
                            - mulG(data[i - period].close, data[i - period].close)
             mean == RoundDiv(s1, period)
             variance == Max(0, RoundDiv(s2, period) - mulG(mean, mean))
             sd == sqrtG(variance)
             t == data[i].time
         IN  bollingerFrom(
                 data, period, stdDev, i + 1, s1, s2,
                 [upper |-> Append(bands.upper,
                                   [time |-> t, value |-> fix2(mean + stdDev * sd)]),
                  middle |-> Append(bands.middle,
                                    [time |-> t, value |-> fix2(mean)]),
                  lower |-> Append(bands.lower,
                                   [time |-> t, value |-> fix2(mean - stdDev * sd)])])

RECURSIVE sumSquares(_, _, _)
sumSquares(data, from, to) ==
    IF from > to THEN 0
    ELSE mulG(data[from].close, data[from].close) + sumSquares(data, from + 1, to)

calculateBollingerBands(data, period, stdDev) ==
    IF noWindow(data, period)
    THEN [upper |-> <<>>, middle |-> <<>>, lower |-> <<>>]
    ELSE bollingerFrom(data, period, stdDev, period,
                       sumCloses(data, 1, period), sumSquares(data, 1, period),
                       [upper |-> <<>>, middle |-> <<>>, lower |-> <<>>])

\* Periods of calculateMACD.
FastPeriod == 12

SlowPeriod == 26

signalPeriod == 9

\* The value of the point of `points` at `time`, 0 when there is none
\* (map.get(time) || 0).
valueAt(points, time) ==
    IF \E i \in 1..Len(points) : points[i].time = time
    THEN points[CHOOSE i \in 1..Len(points) : points[i].time = time].value
    ELSE 0

\* Mutant: every time counts as a time of the other series.
hasTimeAlways(points, time) == TRUE

hasTime(points, time) == \E i \in 1..Len(points) : points[i].time = time

\* The signal loop from point i of the MACD line on.
RECURSIVE signalFrom(_, _, _, _, _)
signalFrom(macdLine, signalMult, i, ema, result) ==
    IF i > Len(macdLine) THEN result
    ELSE LET next == mulG(macdLine[i].value - ema, signalMult) + ema
         IN  signalFrom(macdLine, signalMult, i + 1, next,
                        Append(result, [time |-> macdLine[i].time, value |-> next]))

RECURSIVE sumValues(_, _, _)
sumValues(points, from, to) ==
    IF from > to THEN 0 ELSE points[from].value + sumValues(points, from + 1, to)

calculateMACD(data) ==
    LET ema12 == calculateEMA(data, FastPeriod)
        ema26 == calculateEMA(data, SlowPeriod)
        aligned12 == SelectSeq(ema12, LAMBDA e : hasTime(ema26, e.time))
        macdLine == [i \in 1..Len(aligned12) |->
                        [time |-> aligned12[i].time,
                         value |-> fix2(aligned12[i].value
                                            - valueAt(ema26, aligned12[i].time))]]
        signalMult == RoundDiv(2 * GenScale, signalPeriod + 1)
        signal ==
            IF Len(macdLine) >= signalPeriod
            THEN LET ema == RoundDiv(sumValues(macdLine, 1, signalPeriod),
                                     signalPeriod)
                 IN  signalFrom(macdLine, signalMult, signalPeriod + 1, ema,
                                <<[time |-> macdLine[signalPeriod].time,
                                   value |-> ema]>>)
            ELSE <<>>
        overlap == SelectSeq(macdLine, LAMBDA m : hasTime(signal, m.time))
        histogram == [i \in 1..Len(overlap) |->
                         LET val == overlap[i].value - valueAt(signal, overlap[i].time)
                         IN  [time |-> overlap[i].time, value |-> val,
                              color |-> IF val >= 0 THEN "#22c55e" ELSE "#ef4444"]]
    IN  [macd |-> macdLine, signal |-> signal, histogram |-> histogram]

\* The series given to the indicators: candle i has time i and a close
\* that rises, falls, stays, alternates, falls then rises, or moves by
\* quarters (which doubles hold exactly).
Shapes == {"rising", "falling", "flat", "zigzag", "vee", "quarters"}

closeAt(shape, i) ==
    CASE shape = "rising" -> 10000 + 1000 * i
      [] shape = "falling" -> 50000 - 1000 * i
      [] shape = "flat" -> 20000
      [] shape = "zigzag" -> 20000 + (IF i % 2 = 1 THEN 1500 ELSE 0)
      [] shape = "vee" -> 20000 + 1000 * Abs(i - 3)
      [] shape = "quarters" -> 10000 + 2500 * ((i * i) % 5)

series(shape, len) == [i \in 1..len |-> [time |-> i, close |-> closeAt(shape, i)]]

IndLengths ==
    0..MaxLen \cup {SlowPeriod - 1, SlowPeriod, SlowPeriod + signalPeriod}

IndPeriods == -1..(MaxLen + 1)

IndStdDevs == {2, 3}

----------------------------------------------------------------------------
\* Market mood (src/src/data/indicators.ts).  A stock is read only through
\* its change (in hundredths of a percent); breadth is the fraction
\* advancers / stocks.length, kept as numerator and denominator, and a
\* threshold is a number of hundredths or -Infinity.

MOOD_THRESHOLDS ==
    <<[min |-> Fin(70), label |-> "Strong Rally"],
      [min |-> Fin(55), label |-> "Bullish"],
      [min |-> Fin(45), label |-> "Mixed"],
      [min |-> Fin(30), label |-> "Bearish"],
      [min |-> [k |-> "-Infinity", v |-> 0], label |-> "Selloff"]>>

\* Mutant: a threshold is met only when exceeded.
exceeds(breadth, min) ==
    min.k = "-Infinity" \/ breadth.num * 100 > min.v * breadth.den

\* breadth >= t.min
meets(breadth, min) ==
    min.k = "-Infinity" \/ breadth.num * 100 >= min.v * breadth.den

\* MOOD_THRESHOLDS.find(t => breadth >= t.min), 0 when there is none
findTier(breadth) ==
    IF \E i \in 1..Len(MOOD_THRESHOLDS) : meets(breadth, MOOD_THRESHOLDS[i].min)
    THEN CHOOSE i \in 1..Len(MOOD_THRESHOLDS) :
             /\ meets(breadth, MOOD_THRESHOLDS[i].min)
             /\ \A j \in 1..(i - 1) : ~meets(breadth, MOOD_THRESHOLDS[j].min)
    ELSE 0

computeMarketMood(stocks) ==
    LET advancers == Len(SelectSeq(stocks, LAMBDA s : s.change > 0))
        decliners == Len(SelectSeq(stocks, LAMBDA s : s.change < 0))
        breadth == IF Len(stocks) > 0
                   THEN [num |-> advancers, den |-> Len(stocks)]
                   ELSE [num |-> 1, den |-> 2]
        found == findTier(breadth)
        tier == IF found # 0 THEN MOOD_THRESHOLDS[found]
                ELSE MOOD_THRESHOLDS[Len(MOOD_THRESHOLDS)]
    IN  [label |-> tier.label, advancers |-> advancers,
         decliners |-> decliners, breadth |-> breadth]

\* The stock lists given to computeMarketMood: `up` advancers, `down`
\* decliners and `flat` unchanged stocks, grouped or with the advancers last.
stocksOf(up, down, flat, upFirst) ==
    LET ups == [i \in 1..up |-> [change |-> 100 + i]]
        rest == [i \in 1..down |-> [change |-> -50 - i]]
                    \o [i \in 1..flat |-> [change |-> 0]]
    IN  IF upFirst THEN ups \o rest ELSE rest \o ups

MoodInputs ==
    {stocksOf(c[1], c[2], c[3], o) :
        c \in {t \in (0..MaxStocks) \X (0..MaxStocks) \X (0..MaxStocks) :
                  t[1] + t[2] + t[3] <= MaxStocks},
        o \in BOOLEAN}

----------------------------------------------------------------------------
\* generateSparkline (src/src/data/sparklines.ts).  Prices are tagged
\* numbers on the grid of the generator; a normalized value is the exact
\* fraction (v - min) / range, or NaN.

SPARKLINE_POINTS == 30

SparkSeedFactor == 7919

\* symbol.split('').reduce((a, c) => a + c.charCodeAt(0), 0) * 7919
sparkSeed(symbol) == charCodeSum(symbol, 1, 0) * SparkSeedFactor

\* u1 || 0.001
orThousandth(u1) ==
    IF u1.num = 0 THEN [num |-> u1.den \div 1000, den |-> u1.den] ELSE u1

\* price *= 1 + trend + normal * vol, where Math.log of a negative number
\* is NaN.
sparkStep(price, u1, u2, vol, trend) ==
    LET u == orThousandth(u1)
    IN  IF ~isFinite(price) THEN price
        ELSE IF u.num < 0 THEN NaN
        ELSE LET normal == mulG(radius(u), cosTurn(u2))
             IN  Fin(mulG(price.v, GenScale + trend + mulG(normal, vol)))

\* The random walk from point i on; s is the state of rand.
RECURSIVE walkFrom(_, _, _, _, _, _)
walkFrom(i, s, price, raw, vol, trend) ==
    IF i >= SPARKLINE_POINTS THEN raw
    ELSE LET s1 == nextState(s)
             s2 == nextState(s1)
             next == sparkStep(price, randomValue(s1), randomValue(s2), vol, trend)
         IN  walkFrom(i + 1, s2, next, Append(raw, next), vol, trend)

\* lastPrice * (1 + dayChange * 0.003)
nudged(lastPrice, dayChange) ==
    IF isFinite(lastPrice) /\ isFinite(dayChange)
    THEN Fin(mulG(lastPrice.v, GenScale + mulG(dayChange.v, 30)))
    ELSE NaN

\* a < b on numbers: false when either is NaN.
less(a, b) == isFinite(a) /\ isFinite(b) /\ a.v < b.v

\* The scan for min and max from point i on.
RECURSIVE minFrom(_, _, _)
minFrom(raw, i, min) ==
    IF i > Len(raw) THEN min
    ELSE minFrom(raw, i + 1, IF less(raw[i], min) THEN raw[i] ELSE min)

RECURSIVE maxFrom(_, _, _)
maxFrom(raw, i, max) ==
    IF i > Len(raw) THEN max
    ELSE maxFrom(raw, i + 1, IF less(max, raw[i]) THEN raw[i] ELSE max)

\* max - min || 1: NaN and 0 are both falsy.
rangeOf(min, max) ==
    LET d == numSub(max, min)
    IN  IF ~isFinite(d) \/ d.v = 0 THEN Fin(GenScale) ELSE d

\* (v - min) / range
normalized(v, min, range) ==
    LET d == numSub(v, min)
    IN  IF isFinite(d) /\ isFinite(range) /\ range.v # 0
        THEN [k |-> "fin", num |-> d.v, den |-> range.v]
        ELSE [k |-> "NaN", num |-> 0, den |-> 1]

generateSparkline(symbol, dayChange) ==
    LET preset == presetOf(symbol)
        walk == walkFrom(0, sparkSeed(symbol), Fin(100 * GenScale), <<>>,
                         preset.volatility, preset.trend)
        raw == [walk EXCEPT ![Len(walk)] = nudged(walk[Len(walk)], dayChange)]
        min == minFrom(raw, 2, raw[1])
        max == maxFrom(raw, 2, raw[1])
        range == rangeOf(min, max)
    IN  [raw |-> raw,
         values |-> [i \in 1..Len(raw) |-> normalized(raw[i], min, range)]]

\* Day changes in percent: finite of either sign, zero, and NaN.
SparkChanges ==
    {Fin(-3 * GenScale), Fin(-GenScale), Fin(0), Fin(GenScale \div 2),
     Fin((3 * GenScale) \div 2), NaN}

----------------------------------------------------------------------------
\* The candle fields of the store (src/unnamed/part_007).  A candle series
\* is known by the call that produced it: its symbol, its timeframe and
\* whether it was returned as live.

StoreSymbols == {<<86>>, <<80, 71>>}

StoreTimeframes == {"1M", "1Y"}

\* getCandleData(symbol, timeframe)
syncSeries(symbol, timeframe) ==
    [symbol |-> symbol, timeframe |-> timeframe, isLive |-> FALSE]

\* What getCandleDataAsync(symbol, timeframe) resolves to.
asyncSeries(symbol, timeframe, isLive) ==
    [candles |-> [symbol |-> symbol, timeframe |-> timeframe, isLive |-> isLive],
     isLive |-> isLive]

\* The store as created, with the loads in progress (none).
initialStore(biggestMover) ==
    [selectedSymbol |-> biggestMover, chartTimeframe |-> "1Y",
     candleData |-> syncSeries(biggestMover, "1Y"), isCandlesLive |-> FALSE,
     loads |-> <<>>, completed |-> [called |-> FALSE]]

\* get().loadCandleData(symbol, timeframe) up to its await.
loadCandleDataStarted(state, symbol, timeframe) ==
    [state EXCEPT !.loads = Append(@, [symbol |-> symbol, timeframe |-> timeframe])]

setSelectedSymbol(state, s) ==
    loadCandleDataStarted(
        [state EXCEPT !.selectedSymbol = s,
                      !.candleData = syncSeries(s, state.chartTimeframe),
                      !.isCandlesLive = FALSE],
        s, state.chartTimeframe)

setChartTimeframe(state, t) ==
    loadCandleDataStarted(
        [state EXCEPT !.chartTimeframe = t,
                      !.candleData = syncSeries(state.selectedSymbol, t),
                      !.isCandlesLive = FALSE],
        state.selectedSymbol, t)

\* Mutant: only the symbol is compared.
sameSymbol(state, symbol, timeframe) == state.selectedSymbol = symbol

\* state.selectedSymbol === symbol && state.chartTimeframe === timeframe
stillSelected(state, symbol, timeframe) ==
    state.selectedSymbol = symbol /\ state.chartTimeframe = timeframe

removeAt(seq, i) ==
    [j \in 1..(Len(seq) - 1) |-> IF j < i THEN seq[j] ELSE seq[j + 1]]

\* loadCandleData after its await, for load i, when getCandleDataAsync
\* resolved to result; what was selected at that moment and whether the
\* store was written are kept.
loadCandleDataResolved(state, i, result) ==
    LET load == state.loads[i]
        write == stillSelected(state, load.symbol, load.timeframe)
        done == [called |-> TRUE, symbol |-> load.symbol,
                 timeframe |-> load.timeframe, wrote |-> write,
                 selectedSymbol |-> state.selectedSymbol,
                 chartTimeframe |-> state.chartTimeframe]
    IN  IF write
        THEN [state EXCEPT !.candleData = result.candles,
                           !.isCandlesLive = result.isLive,
                           !.loads = removeAt(@, i), !.completed = done]
        ELSE [state EXCEPT !.loads = removeAt(@, i), !.completed = done]

\* loadCandleData when getCandleDataAsync rejected: the catch keeps the
\* store as it is.
loadCandleDataRejected(state, i) ==
    [state EXCEPT !.loads = removeAt(@, i)]

----------------------------------------------------------------------------
\* The performance monitor (src/src/components/RSIChart.tsx).  A sample is a
\* tick at which SAMPLE_INTERVAL has elapsed; its fps, computed from the
\* frame count and the elapsed time, is an input.  A tick before that only
\* counts a frame.

LOW_FPS == 30

HIGH_FPS == 45

DEGRADE_COUNT == 3

RECOVER_COUNT == 3

\* The refs and the state of usePerformanceMonitor as created, with the
\* samples seen and the degraded flag before the last sample.
initialMonitor ==
    [state |-> [fps |-> 60, degraded |-> FALSE],
     lowCount |-> 0, highCount |-> 0, degradedRef |-> FALSE,
     samples |-> <<>>, wasDegraded |-> FALSE]

\* Mutant: the count is reached one sample early.
reachedEarly(count, needed) == count + 1 >= needed

\* lowCountRef.current >= DEGRADE_COUNT
reached(count, needed) == count >= needed

\* setState(prev => prev.fps !== fps ? { fps, degraded: prev.degraded } : prev)
withFps(prev, fps) ==
    IF prev.fps # fps THEN [fps |-> fps, degraded |-> prev.degraded] ELSE prev

\* tick when elapsed >= SAMPLE_INTERVAL, with the fps it computes.
tick(m, fps) ==
    LET seen == [m EXCEPT !.samples = Append(@, fps),
                          !.wasDegraded = m.state.degraded]
    IN  IF fps < LOW_FPS
        THEN LET low == m.lowCount + 1
             IN  IF reached(low, DEGRADE_COUNT) /\ ~m.degradedRef
                 THEN [seen EXCEPT !.lowCount = low, !.highCount = 0,
                                   !.degradedRef = TRUE,
                                   !.state = [fps |-> fps, degraded |-> TRUE]]
                 ELSE [seen EXCEPT !.lowCount = low, !.highCount = 0,
                                   !.state = withFps(m.state, fps)]
        ELSE IF fps > HIGH_FPS
        THEN LET high == m.highCount + 1
             IN  IF reached(high, RECOVER_COUNT) /\ m.degradedRef
                 THEN [seen EXCEPT !.highCount = high, !.lowCount = 0,
                                   !.degradedRef = FALSE,
                                   !.state = [fps |-> fps, degraded |-> FALSE]]
                 ELSE [seen EXCEPT !.highCount = high, !.lowCount = 0,
                                   !.state = withFps(m.state, fps)]
        ELSE [seen EXCEPT !.lowCount = 0, !.highCount = 0,
                          !.state = withFps(m.state, fps)]

\* The fps values sampled: each side of both thresholds.
FpsSamples == {LOW_FPS - 1, LOW_FPS, HIGH_FPS, HIGH_FPS + 1}

----------------------------------------------------------------------------
\* The auto-refresh timer (src/unnamed/part_007).  A timer handle is a
\* positive integer; setInterval returns one never returned before, and 0
\* stands for null.  The timers registered with the runtime are kept apart
\* from the module variable refreshInterval.

initialRefresh ==
    [refreshInterval |-> 0, timers |-> {}, nextHandle |-> 1, inits |-> <<>>,
     started |-> 0, overlapped |-> FALSE, fired |-> [called |-> FALSE]]

\* Mutant: the handle is forgotten without clearInterval.
stopAutoRefreshForgetting(r) == [r EXCEPT !.refreshInterval = 0]

stopAutoRefresh(r) ==
    IF r.refreshInterval # 0
    THEN [r EXCEPT !.timers = @ \ {r.refreshInterval}, !.refreshInterval = 0]
    ELSE r

startAutoRefresh(r) ==
    LET stopped == stopAutoRefresh(r)
    IN  [stopped EXCEPT !.refreshInterval = stopped.nextHandle,
                        !.timers = @ \cup {stopped.nextHandle},
                        !.nextHandle = @ + 1]

\* initLiveData up to `await fetchMarketData()`.
initLiveDataCalled(r) ==
    [r EXCEPT !.inits = Append(@, "fetching"), !.started = @ + 1]

\* initLiveData from the resolved fetch to `await state.loadCandleData(...)`.
initLiveDataFetched(r, i) == [r EXCEPT !.inits[i] = "loading"]

\* initLiveData when the fetch rejected: the catch starts no timer.
initLiveDataFailed(r, i) == [r EXCEPT !.inits = removeAt(@, i)]

\* initLiveData after loadCandleData: startAutoRefresh, possibly while
\* another initLiveData call is still waiting.
initLiveDataLoaded(r, i) ==
    LET rest == [r EXCEPT !.inits = removeAt(@, i),
                          !.overlapped = @ \/ Len(r.inits) > 1]
    IN  startAutoRefresh(rest)

\* The interval callback of timer h: refreshFn runs if the market is open.
\* Whether h was the handle held at that moment is kept.
intervalFired(r, h, isMarketOpen) ==
    [r EXCEPT !.fired = [called |-> TRUE, handle |-> h, ran |-> isMarketOpen,
                         held |-> h = r.refreshInterval]]

----------------------------------------------------------------------------
\* The state machine.

NoCall ==
    [called |-> FALSE, portfolio |-> 1, symbol |-> "AAPL", type |-> "buy",
     shares |-> NaN, price |-> NaN, success |-> FALSE, error |-> "",
     result |-> 1,
     before |-> [cash |-> 0, startingCash |-> 0,
                 positions |-> <<>>, trades |-> <<>>]]

\* A part at rest: no call made, nothing held.
NotCalled == [called |-> FALSE]

LedgerAtRest ==
    /\ portfolios = <<>> /\ positionArrays = <<>> /\ positionObjs = <<>>
    /\ tradeArrays = <<>> /\ now = 0 /\ last = NoCall

ReturnAtRest == ret = NotCalled

RngAtRest == rng = NotCalled

GenAtRest == gen = NotCalled

CacheAtRest ==
    /\ candleCache = <<>> /\ insertionOrder = <<>> /\ inFlight = <<>>
    /\ today = 0 /\ lastGet = NotCalled /\ served = <<>>

IndAtRest == ind = NotCalled

OtherAtRest ==
    /\ mood = NotCalled /\ spark = NotCalled /\ store = NotCalled
    /\ perf = NotCalled /\ refresh = NotCalled

Init ==
    \E c \in StartingCashInputs :
        LET h == createPortfolio(EmptyHeap, c)
        IN  /\ portfolios = h.portfolios
            /\ positionArrays = h.positionArrays
            /\ positionObjs = h.positionObjs
            /\ tradeArrays = h.tradeArrays
            /\ now = 0
            /\ last = NoCall
            /\ ReturnAtRest /\ RngAtRest /\ GenAtRest /\ CacheAtRest /\ IndAtRest /\ OtherAtRest

\* One call of executeTrade on any Portfolio created so far, its arguments
\* drawn from the given sets.  Date.now() and Math.random() are read on the
\* success path only; the clock may advance by at most `drift` between the
\* two Date.now() reads.
Call(symbolIn, shareIn, priceIn, rndIn, drift) ==
    /\ Len(portfolios) < MaxPortfolios
    /\ \E portfolio \in DOMAIN portfolios, symbol \in symbolIn,
          type \in TradeTypes, shares \in shareIn, price \in priceIn :
          LET before == View(Heap, portfolio)
              dry == executeTrade(Heap, portfolio, symbol, type, shares,
                                  price, now, now, CHOOSE x \in rndIn : TRUE)
          IN  \E rnd \in IF dry.success THEN rndIn ELSE {dry.error},
                 t2 \in IF dry.success THEN now..(now + drift) ELSE {now} :
                  /\ t2 <= MaxClock
                  /\ LET r == executeTrade(Heap, portfolio, symbol, type,
                                           shares, price, now, t2, rnd)
                     IN  /\ portfolios' = r.heap.portfolios
                         /\ positionArrays' = r.heap.positionArrays
                         /\ positionObjs' = r.heap.positionObjs
                         /\ tradeArrays' = r.heap.tradeArrays
                         /\ now' = t2
                         /\ last' = [called |-> TRUE, portfolio |-> portfolio,
                                     symbol |-> symbol, type |-> type,
                                     shares |-> shares, price |-> price,
                                     success |-> r.success, error |-> r.error,
                                     result |-> r.portfolio,
                                     before |-> before]
    /\ UNCHANGED <<ret, rng, gen, cacheVars, ind, otherVars>>

\* Time passes between calls.
Tick ==
    /\ now < MaxClock
    /\ now' = now + 1
    /\ UNCHANGED <<heapVars, last, ret, rng, gen, cacheVars, ind, otherVars>>

\* The ledger on valid arguments, two symbols.
ExecuteTrade ==
    Call(Symbols, ValidShares, ValidPrices, {CHOOSE x \in RandomSuffixes : TRUE}, 0)

Next == ExecuteTrade

Spec == Init /\ [][Next]_vars

\* Every kind of argument, valid and invalid, on one symbol.
ExecuteTradeAnyArgs ==
    Call({"AAPL"}, InvalidShares \cup {Fin(Scale)},
         InvalidPrices \cup {Fin(Scale)},
         {CHOOSE x \in RandomSuffixes : TRUE}, 0)

NextValidation == ExecuteTradeAnyArgs

SpecValidation == Init /\ [][NextValidation]_vars

\* The clock and the random suffix: trades of one symbol at one price while
\* time passes.
ExecuteTradeTimed ==
    Call({"AAPL"}, ValidShares, {Fin(MaxPrice * Scale)}, RandomSuffixes, 1)

NextHistory == ExecuteTradeTimed \/ Tick

SpecHistory == Init /\ [][NextHistory]_vars

----------------------------------------------------------------------------
\* getPortfolioReturn applied once to any Portfolio value.

InitReturn ==
    /\ LedgerAtRest /\ RngAtRest /\ GenAtRest /\ CacheAtRest /\ IndAtRest /\ OtherAtRest
    /\ \E p \in ReturnPortfolios :
           ret = [called |-> FALSE, portfolio |-> p,
                  absolute |-> Fin(0), percent |-> Fin(0)]

GetPortfolioReturn ==
    /\ ~ret.called
    /\ LET r == getPortfolioReturn(ret.portfolio)
       IN  ret' = [called |-> TRUE, portfolio |-> ret.portfolio,
                   absolute |-> r.absolute, percent |-> r.percent]
    /\ UNCHANGED <<ledgerVars, rng, gen, cacheVars, ind, otherVars>>

NextReturn == GetPortfolioReturn

SpecReturn == InitReturn /\ [][NextReturn]_vars

----------------------------------------------------------------------------
\* One generator made by seededRandom(seed), called MaxDraws times.

InitRng ==
    /\ LedgerAtRest /\ ReturnAtRest /\ GenAtRest /\ CacheAtRest /\ IndAtRest /\ OtherAtRest
    /\ \E seed \in SeedInputs :
           rng = [called |-> FALSE, seed |-> seed, s |-> seed, n |-> 0,
                  value |-> randomValue(2)]

Rand ==
    /\ rng.n < MaxDraws
    /\ LET s == nextState(rng.s)
       IN  rng' = [called |-> TRUE, seed |-> rng.seed, s |-> s,
                   n |-> rng.n + 1, value |-> randomValue(s)]
    /\ UNCHANGED <<ledgerVars, ret, gen, cacheVars, ind, otherVars>>

NextRng == Rand

SpecRng == InitRng /\ [][NextRng]_vars

----------------------------------------------------------------------------
\* generateCandlestickData applied once, at any time of any day, in any zone.

InitGen ==
    /\ LedgerAtRest /\ ReturnAtRest /\ RngAtRest /\ CacheAtRest /\ IndAtRest /\ OtherAtRest
    /\ \E symbol \in GenSymbols, startPrice \in GenPrices, days \in GenDays,
          volatility \in GenVolatilities, trend \in GenTrends,
          clock \in GenClocks, tz \in GenZones :
           gen = [called |-> FALSE, symbol |-> symbol,
                  startPrice |-> startPrice, days |-> days,
                  volatility |-> volatility, trend |-> trend,
                  clock |-> clock, tz |-> tz, candles |-> <<>>]

GenerateCandlestickData ==
    /\ ~gen.called
    /\ gen' = [gen EXCEPT
                  !.called = TRUE,
                  !.candles = generateCandlestickData(
                                  gen.symbol, gen.startPrice, gen.days,
                                  gen.volatility, gen.trend, gen.clock, gen.tz)]
    /\ UNCHANGED <<ledgerVars, ret, rng, cacheVars, ind, otherVars>>

NextGen == GenerateCandlestickData

SpecGen == InitGen /\ [][NextGen]_vars

----------------------------------------------------------------------------
\* The candle cache under any interleaving of getCandleData,
\* getCandleDataAsync (whose await may be overtaken by any other call),
\* clearCandleCache and midnights.

NothingServed == [symbol \in CacheSymbols |-> <<>>]

InitCache ==
    /\ LedgerAtRest /\ ReturnAtRest /\ RngAtRest /\ GenAtRest /\ IndAtRest /\ OtherAtRest
    /\ candleCache = <<>>
    /\ insertionOrder = <<>>
    /\ inFlight = <<>>
    /\ today = 12
    /\ lastGet = NotCalled
    /\ served = NothingServed

\* A call returns r: the Map, the record of the call and the history it
\* leaves (the series first served per symbol is kept when `track`).
Returned(op, symbol, timeframe, r, track) ==
    /\ candleCache' = r.cache
    /\ insertionOrder' =
           IF r.miss
           THEN LET kept == without(insertionOrder, r.removed)
                IN  IF \E i \in 1..Len(kept) : kept[i] = r.key THEN kept
                    ELSE Append(kept, r.key)
           ELSE insertionOrder
    /\ lastGet' = [called |-> TRUE, op |-> op, symbol |-> symbol,
                   timeframe |-> timeframe, candles |-> r.candles,
                   isLive |-> r.isLive, miss |-> r.miss,
                   removed |-> r.removed]
    /\ served' =
           IF ~track \/ r.isLive \/ served[symbol] # <<>> THEN served
           ELSE [served EXCEPT ![symbol] = <<r.allData>>]
    /\ UNCHANGED <<ledgerVars, ret, rng, gen, ind, otherVars>>

GetCandleDataOf(timeframes, track) ==
    \E symbol \in CacheSymbols, timeframe \in timeframes :
        /\ Returned("getCandleData", symbol, timeframe,
                    getCandleData(candleCache, symbol, timeframe, today), track)
        /\ UNCHANGED <<inFlight, today>>

GetCandleData == GetCandleDataOf(Timeframes, FALSE)

\* getCandleDataAsync finds the live series cached and returns.
GetCandleDataAsyncCached ==
    \E symbol \in CacheSymbols, timeframe \in {"1M", "1Y"} :
        LET r == beforeFetch(candleCache, symbol, timeframe)
        IN  /\ r.cached
            /\ Returned("getCandleDataAsync", symbol, timeframe, r, FALSE)
            /\ UNCHANGED <<inFlight, today>>

\* getCandleDataAsync finds none and awaits fetchCandlestickData.
GetCandleDataAsyncAwait ==
    \E symbol \in CacheSymbols, timeframe \in {"1M"} :
        /\ ~beforeFetch(candleCache, symbol, timeframe).cached
        /\ Len(inFlight) < MaxInFlight
        /\ inFlight' = Append(inFlight, [symbol |-> symbol,
                                         timeframe |-> timeframe])
        /\ UNCHANGED <<candleCache, insertionOrder, today, lastGet, served>>
        /\ UNCHANGED <<ledgerVars, ret, rng, gen, ind, otherVars>>

\* A waiting call goes on with what the fetch gave.
GetCandleDataAsyncResume ==
    \E i \in 1..Len(inFlight) :
        \E realData \in FetchResults(inFlight[i].symbol) :
            /\ inFlight' = [j \in 1..(Len(inFlight) - 1) |->
                               IF j < i THEN inFlight[j] ELSE inFlight[j + 1]]
            /\ IF realData.k = "rejects"
               THEN UNCHANGED <<candleCache, insertionOrder, lastGet, served,
                                ledgerVars, ret, rng, gen, ind, otherVars>>
               ELSE Returned("getCandleDataAsync", inFlight[i].symbol,
                             inFlight[i].timeframe,
                             afterFetch(candleCache, inFlight[i].symbol,
                                        inFlight[i].timeframe, realData, today),
                             FALSE)
            /\ UNCHANGED today

ClearCandleCache ==
    /\ candleCache' = <<>>
    /\ insertionOrder' = <<>>
    /\ served' = NothingServed
    /\ lastGet' = [called |-> TRUE, op |-> "clearCandleCache"]
    /\ UNCHANGED <<inFlight, today>>
    /\ UNCHANGED <<ledgerVars, ret, rng, gen, ind, otherVars>>

NextCache ==
    \/ GetCandleData
    \/ GetCandleDataAsyncCached
    \/ GetCandleDataAsyncAwait
    \/ GetCandleDataAsyncResume
    \/ ClearCandleCache

SpecCache == InitCache /\ [][NextCache]_vars

\* getCandleData and clearCandleCache while days pass, with the history of
\* what each symbol was first served.
GetCandleDataTracked == GetCandleDataOf({"1M", "1Y"}, TRUE)

\* Midnight passes.
DayPasses ==
    /\ today < 12 + 24 * MaxDaysPassed
    /\ today' = today + 24
    /\ UNCHANGED <<candleCache, insertionOrder, inFlight, lastGet, served>>
    /\ UNCHANGED <<ledgerVars, ret, rng, gen, ind, otherVars>>

NextCacheDays == GetCandleDataTracked \/ ClearCandleCache \/ DayPasses

SpecCacheDays == InitCache /\ [][NextCacheDays]_vars

----------------------------------------------------------------------------
\* Every indicator applied once to one series with one period.

InitInd ==
    /\ LedgerAtRest /\ ReturnAtRest /\ RngAtRest /\ GenAtRest /\ CacheAtRest /\ OtherAtRest
    /\ \E shape \in Shapes, len \in IndLengths, period \in IndPeriods,
          stdDev \in IndStdDevs :
           ind = [called |-> FALSE, data |-> series(shape, len),
                  period |-> period, stdDev |-> stdDev]

Calculate ==
    /\ ~ind.called
    /\ ind' = [called |-> TRUE, data |-> ind.data, period |-> ind.period,
               stdDev |-> ind.stdDev,
               sma |-> calculateSMA(ind.data, ind.period),
               smaBySlices |-> calculateSMABySlices(ind.data, ind.period),
               ema |-> calculateEMA(ind.data, ind.period),
               rsi |-> calculateRSI(ind.data, ind.period),
               macd |-> calculateMACD(ind.data),
               bollinger |-> calculateBollingerBands(ind.data, ind.period,
                                                     ind.stdDev)]
    /\ UNCHANGED <<ledgerVars, ret, rng, gen, cacheVars, otherVars>>

NextInd == Calculate

SpecInd == InitInd /\ [][NextInd]_vars

----------------------------------------------------------------------------
\* computeMarketMood applied once to one list of stocks.

InitMood ==
    /\ LedgerAtRest /\ ReturnAtRest /\ RngAtRest /\ GenAtRest /\ CacheAtRest
    /\ IndAtRest
    /\ spark = NotCalled /\ store = NotCalled /\ perf = NotCalled
    /\ refresh = NotCalled
    /\ \E stocks \in MoodInputs : mood = [called |-> FALSE, stocks |-> stocks]

ComputeMarketMood ==
    /\ ~mood.called
    /\ mood' = [called |-> TRUE, stocks |-> mood.stocks,
                result |-> computeMarketMood(mood.stocks)]
    /\ UNCHANGED <<ledgerVars, ret, rng, gen, cacheVars, ind>>
    /\ UNCHANGED <<spark, store, perf, refresh>>

NextMood == ComputeMarketMood

SpecMood == InitMood /\ [][NextMood]_vars

----------------------------------------------------------------------------
\* generateSparkline applied once to one symbol and one day change.

InitSpark ==
    /\ LedgerAtRest /\ ReturnAtRest /\ RngAtRest /\ GenAtRest /\ CacheAtRest
    /\ IndAtRest
    /\ mood = NotCalled /\ store = NotCalled /\ perf = NotCalled
    /\ refresh = NotCalled
    /\ \E symbol \in SymbolCodes, dayChange \in SparkChanges :
           spark = [called |-> FALSE, symbol |-> symbol, dayChange |-> dayChange]

GenerateSparkline ==
    /\ ~spark.called
    /\ spark' = [called |-> TRUE, symbol |-> spark.symbol,
                 dayChange |-> spark.dayChange,
                 result |-> generateSparkline(spark.symbol, spark.dayChange)]
    /\ UNCHANGED <<ledgerVars, ret, rng, gen, cacheVars, ind>>
    /\ UNCHANGED <<mood, store, perf, refresh>>

NextSpark == GenerateSparkline

SpecSpark == InitSpark /\ [][NextSpark]_vars

----------------------------------------------------------------------------
\* The store under any interleaving of setSelectedSymbol, setChartTimeframe,
\* the load initLiveData starts, and the completions of the loads.

InitStore ==
    /\ LedgerAtRest /\ ReturnAtRest /\ RngAtRest /\ GenAtRest /\ CacheAtRest
    /\ IndAtRest
    /\ mood = NotCalled /\ spark = NotCalled /\ perf = NotCalled
    /\ refresh = NotCalled
    /\ \E biggestMover \in StoreSymbols : store = initialStore(biggestMover)

StoreStep(next) ==
    /\ store' = next
    /\ UNCHANGED <<ledgerVars, ret, rng, gen, cacheVars, ind>>
    /\ UNCHANGED <<mood, spark, perf, refresh>>

SetSelectedSymbol ==
    /\ Len(store.loads) < MaxLoads
    /\ \E s \in StoreSymbols : StoreStep(setSelectedSymbol(store, s))

SetChartTimeframe ==
    /\ Len(store.loads) < MaxLoads
    /\ \E t \in StoreTimeframes : StoreStep(setChartTimeframe(store, t))

\* initLiveData reaches its loadCandleData call.
InitLiveDataLoads ==
    /\ Len(store.loads) < MaxLoads
    /\ StoreStep(loadCandleDataStarted(store, store.selectedSymbol,
                                       store.chartTimeframe))

LoadCandleDataResolves ==
    \E i \in 1..Len(store.loads), isLive \in BOOLEAN :
        StoreStep(loadCandleDataResolved(
                      store, i,
                      asyncSeries(store.loads[i].symbol,
                                  store.loads[i].timeframe, isLive)))

LoadCandleDataRejects ==
    \E i \in 1..Len(store.loads) : StoreStep(loadCandleDataRejected(store, i))

NextStore ==
    \/ SetSelectedSymbol
    \/ SetChartTimeframe
    \/ InitLiveDataLoads
    \/ LoadCandleDataResolves
    \/ LoadCandleDataRejects

SpecStore == InitStore /\ [][NextStore]_vars

----------------------------------------------------------------------------
\* The performance monitor over any sequence of samples.

InitPerf ==
    /\ LedgerAtRest /\ ReturnAtRest /\ RngAtRest /\ GenAtRest /\ CacheAtRest
    /\ IndAtRest
    /\ mood = NotCalled /\ spark = NotCalled /\ store = NotCalled
    /\ refresh = NotCalled
    /\ perf = initialMonitor

TickSample ==
    /\ Len(perf.samples) < MaxSamples
    /\ \E fps \in FpsSamples : perf' = tick(perf, fps)
    /\ UNCHANGED <<ledgerVars, ret, rng, gen, cacheVars, ind>>
    /\ UNCHANGED <<mood, spark, store, refresh>>

NextPerf == TickSample

SpecPerf == InitPerf /\ [][NextPerf]_vars

----------------------------------------------------------------------------
\* initLiveData calls, overlapping or not, and the timers they start.

InitRefresh ==
    /\ LedgerAtRest /\ ReturnAtRest /\ RngAtRest /\ GenAtRest /\ CacheAtRest
    /\ IndAtRest
    /\ mood = NotCalled /\ spark = NotCalled /\ store = NotCalled
    /\ perf = NotCalled
    /\ refresh = initialRefresh

RefreshStep(next) ==
    /\ refresh' = next
    /\ UNCHANGED <<ledgerVars, ret, rng, gen, cacheVars, ind>>
    /\ UNCHANGED <<mood, spark, store, perf>>

InitLiveData ==
    /\ refresh.started < MaxInits
    /\ RefreshStep(initLiveDataCalled(refresh))

InitLiveDataFetched ==
    \E i \in 1..Len(refresh.inits) :
        /\ refresh.inits[i] = "fetching"
        /\ RefreshStep(initLiveDataFetched(refresh, i))

InitLiveDataFailed ==
    \E i \in 1..Len(refresh.inits) :
        /\ refresh.inits[i] = "fetching"
        /\ RefreshStep(initLiveDataFailed(refresh, i))

InitLiveDataLoaded ==
    \E i \in 1..Len(refresh.inits) :
        /\ refresh.inits[i] = "loading"
        /\ RefreshStep(initLiveDataLoaded(refresh, i))

IntervalFires ==
    \E h \in refresh.timers, isMarketOpen \in BOOLEAN :
        RefreshStep(intervalFired(refresh, h, isMarketOpen))

NextRefresh ==
    \/ InitLiveData
    \/ InitLiveDataFetched
    \/ InitLiveDataFailed
    \/ InitLiveDataLoaded
    \/ IntervalFires

SpecRefresh == InitRefresh /\ [][NextRefresh]_vars

----------------------------------------------------------------------------
\* Claims.

\* The arguments of the last call as plain grid values (valid arguments).
lastShares == last.shares.v

lastPrice == last.price.v

\* shares x price of the last call: shares is a whole number of units.
lastTotal == (last.shares.v \div Scale) * last.price.v

\* The last call returned its input Portfolio, whose contents are those it
\* had before the call.
ReturnedInputUnchanged ==
    /\ last.result = last.portfolio
    /\ View(Heap, last.result) = last.before

\* C1: executeTrade never mutates its input.  Every step leaves every object
\* that existed before it (Portfolio, positions array, Position, trades array)
\* with the same contents, so every Portfolio returned earlier keeps its value;
\* and the Portfolio a successful call returns, its positions array, every
\* Position in it and its trades array are objects that did not exist before
\* the call.
InputNeverMutated ==
    [][ /\ \A p \in DOMAIN portfolios :
              p \in DOMAIN portfolios' /\ portfolios'[p] = portfolios[p]
        /\ \A a \in DOMAIN positionArrays :
              a \in DOMAIN positionArrays'
                  /\ positionArrays'[a] = positionArrays[a]
        /\ \A o \in DOMAIN positionObjs :
              o \in DOMAIN positionObjs' /\ positionObjs'[o] = positionObjs[o]
        /\ \A t \in DOMAIN tradeArrays :
              t \in DOMAIN tradeArrays' /\ tradeArrays'[t] = tradeArrays[t]
        /\ (last'.success /\ heapVars' # heapVars) =>
              LET r == last'.result
              IN  /\ r \notin DOMAIN portfolios
                  /\ r \in DOMAIN portfolios'
                  /\ portfolios'[r].positions \notin DOMAIN positionArrays
                  /\ portfolios'[r].trades \notin DOMAIN tradeArrays
                  /\ \A i \in DOMAIN positionArrays'[portfolios'[r].positions] :
                        positionArrays'[portfolios'[r].positions][i]
                            \notin DOMAIN positionObjs
      ]_vars

\* C1 witness: a successful trade on a Portfolio that holds two positions, one
\* of them for the traded symbol; the input still has its old contents and the
\* result differs from it.
InputNeverMutatedWitness ==
    /\ last.called /\ last.success
    /\ Len(last.before.positions) = 2
    /\ \E i \in DOMAIN last.before.positions :
          last.before.positions[i].symbol = last.symbol
    /\ View(Heap, last.portfolio) = last.before
    /\ View(Heap, last.result) # last.before

\* C2: the cash of every Portfolio reachable from createPortfolio(c), c >= 0,
\* by executeTrade calls with valid and invalid arguments is never negative.
CashNeverNegative == \A p \in DOMAIN portfolios : portfolios[p].cash >= 0

\* C2 witness: after successful trades the cash is 0 and a further buy is
\* refused for lack of funds.
CashNeverNegativeWitness ==
    /\ last.called /\ ~last.success /\ last.error = ErrFunds
    /\ last.before.cash = 0
    /\ Len(last.before.trades) > 0

\* C3: invalid shares (0, negative, fractional, NaN, Infinity) give the shares
\* error, whatever the price; valid shares with an invalid price (0, negative,
\* NaN, Infinity) give the price error; in both cases the call fails and
\* returns its input Portfolio with cash, positions and trades unchanged.
ValidationFirst ==
    last.called =>
        /\ last.shares \in InvalidShares =>
              ~last.success /\ last.error = ErrShares
                  /\ ReturnedInputUnchanged
        /\ (last.shares \notin InvalidShares /\ last.price \in InvalidPrices) =>
              ~last.success /\ last.error = ErrPrice
                  /\ ReturnedInputUnchanged

\* C3 witness: a sell with both arguments invalid on a Portfolio that holds a
\* position reports the shares error.
ValidationFirstWitness ==
    /\ last.called /\ last.type = "sell"
    /\ last.shares \in InvalidShares /\ last.price \in InvalidPrices
    /\ last.error = ErrShares
    /\ Len(last.before.positions) > 0

\* C4: with valid arguments a buy fails if and only if shares x price > cash;
\* when shares x price = cash it succeeds and leaves cash 0; when it fails no
\* Trade is recorded and the input Portfolio is returned unchanged.
BuyFailsIffTooCostly ==
    (last.called /\ last.type = "buy"
        /\ last.shares \in ValidShares /\ last.price \in ValidPrices) =>
        /\ ~last.success <=> lastTotal > last.before.cash
        /\ (lastTotal = last.before.cash) =>
              last.success /\ portfolios[last.result].cash = 0
        /\ ~last.success =>
              last.error = ErrFunds /\ ReturnedInputUnchanged

\* C4 witness: a buy that costs exactly the (positive) cash at hand.
BuyFailsIffTooCostlyWitness ==
    /\ last.called /\ last.type = "buy" /\ last.success
    /\ last.before.cash > 0
    /\ lastTotal = last.before.cash

\* C5: with valid arguments a sell fails if and only if the Portfolio holds no
\* position for the symbol with at least the requested shares; selling exactly
\* the held shares succeeds; when it fails no Trade is recorded and the input
\* Portfolio is returned unchanged.
SellFailsIffTooFewShares ==
    (last.called /\ last.type = "sell"
        /\ last.shares \in ValidShares /\ last.price \in ValidPrices) =>
        /\ last.success <=>
              \E i \in DOMAIN last.before.positions :
                  /\ last.before.positions[i].symbol = last.symbol
                  /\ last.before.positions[i].shares >= lastShares
        /\ ~last.success =>
              last.error = ErrSharesHeld /\ ReturnedInputUnchanged

\* C5 witness: a sell of exactly the shares held succeeds.
SellFailsIffTooFewSharesWitness ==
    /\ last.called /\ last.type = "sell" /\ last.success
    /\ \E i \in DOMAIN last.before.positions :
          /\ last.before.positions[i].symbol = last.symbol
          /\ last.before.positions[i].shares = lastShares

\* Helpers of the claims about positions and trades.


\* The indexes of the positions of a view that are for the symbol.
Held(view, symbol) ==
    {i \in DOMAIN view.positions : view.positions[i].symbol = symbol}

\* Sum of the totals, and number, of the trades for the symbol.
RECURSIVE PaidFor(_, _)
PaidFor(trades, symbol) ==
    IF trades = <<>> THEN 0
    ELSE (IF Head(trades).symbol = symbol THEN Head(trades).total ELSE 0)
             + PaidFor(Tail(trades), symbol)

TradesFor(trades, symbol) ==
    Cardinality({i \in DOMAIN trades : trades[i].symbol = symbol})

BoughtOnly(trades, symbol) ==
    \A i \in DOMAIN trades :
        trades[i].symbol = symbol => trades[i].type = "buy"

LastBuySucceeded ==
    /\ last.called /\ last.success /\ last.type = "buy"
    /\ last.shares \in ValidShares /\ last.price \in ValidPrices

LastSellSucceeded ==
    /\ last.called /\ last.success /\ last.type = "sell"
    /\ last.shares \in ValidShares /\ last.price \in ValidPrices

\* A successful buy of n shares at price p takes n x p from cash; an existing
\* position (s, a) becomes (s + n, the quotient (a s + p n) / (s + n) rounded
\* to the nearest representable number, p) in place; otherwise the position
\* (S, n, p, p) is added at the end.
BuyEffects ==
    LastBuySucceeded =>
        LET b == last.before
            a == View(Heap, last.result)
            n == lastShares \div Scale
        IN  /\ a.cash = b.cash - lastTotal
            /\ IF Held(b, last.symbol) # {}
               THEN /\ Len(a.positions) = Len(b.positions)
                    /\ \A i \in Held(b, last.symbol) :
                          LET s == b.positions[i].shares \div Scale
                              sum == b.positions[i].avgCost * s + lastPrice * n
                          IN  /\ a.positions[i].symbol = last.symbol
                              /\ a.positions[i].shares =
                                     b.positions[i].shares + lastShares
                              /\ a.positions[i].currentPrice = lastPrice
                              /\ 2 * Abs(a.positions[i].avgCost * (s + n) - sum)
                                     <= s + n
               ELSE /\ Len(a.positions) = Len(b.positions) + 1
                    /\ a.positions[Len(a.positions)] =
                           [symbol |-> last.symbol, shares |-> lastShares,
                            avgCost |-> lastPrice, currentPrice |-> lastPrice]

\* C6, as amended: BuyEffects, and for a position whose symbol was only ever
\* bought, avgCost x shares differs from the total amount paid by at most the
\* rounding of the divisions: half a grid unit of avgCost per buy, times the
\* shares held.
BuyUpdatesPosition ==
    /\ BuyEffects
    /\ \A p \in DOMAIN portfolios :
          LET v == View(Heap, p)
          IN  \A i \in DOMAIN v.positions :
                  LET x == v.positions[i]
                  IN  BoughtOnly(v.trades, x.symbol) =>
                          2 * Abs(x.avgCost * (x.shares \div Scale)
                                      - PaidFor(v.trades, x.symbol))
                              <= TradesFor(v.trades, x.symbol)
                                     * (x.shares \div Scale)

\* C6 witness: a buy into an existing position whose blended average is not
\* representable, so that the division rounds.
BuyUpdatesPositionWitness ==
    /\ LastBuySucceeded
    /\ \E i \in Held(last.before, last.symbol) :
          LET s == last.before.positions[i].shares \div Scale
              n == lastShares \div Scale
          IN  View(Heap, last.result).positions[i].avgCost * (s + n)
                  # last.before.positions[i].avgCost * s + lastPrice * n

\* C6 as first stated: BuyEffects, and for a position whose symbol was only
\* ever bought, avgCost x shares equals the total amount paid.
BuyUpdatesPositionExact ==
    /\ BuyEffects
    /\ \A p \in DOMAIN portfolios :
          LET v == View(Heap, p)
          IN  \A i \in DOMAIN v.positions :
                  LET x == v.positions[i]
                  IN  BoughtOnly(v.trades, x.symbol) =>
                          x.avgCost * (x.shares \div Scale)
                              = PaidFor(v.trades, x.symbol)

\* C7: a successful sell of n shares at price p adds n x p to cash and takes n
\* from the position's shares; the position is removed if and only if its
\* shares reach zero, and otherwise gets currentPrice p.  Every position of
\* every Portfolio holds a positive whole number of shares.
SellUpdatesPosition ==
    /\ LastSellSucceeded =>
          LET b == last.before
              a == View(Heap, last.result)
          IN  /\ a.cash = b.cash + lastTotal
              /\ \A i \in Held(b, last.symbol) :
                    IF b.positions[i].shares = lastShares
                    THEN /\ Held(a, last.symbol) = {}
                         /\ Len(a.positions) = Len(b.positions) - 1
                    ELSE /\ Len(a.positions) = Len(b.positions)
                         /\ a.positions[i].symbol = last.symbol
                         /\ a.positions[i].shares =
                                b.positions[i].shares - lastShares
                         /\ a.positions[i].currentPrice = lastPrice
    /\ \A o \in DOMAIN positionObjs :
          positionObjs[o].shares > 0 /\ positionObjs[o].shares % Scale = 0

\* C7 witness: a sell that empties a position, after an earlier sell that left
\* shares in it.
SellUpdatesPositionWitness ==
    /\ LastSellSucceeded
    /\ Held(last.before, last.symbol) # {}
    /\ Held(View(Heap, last.result), last.symbol) = {}
    /\ \E i \in DOMAIN last.before.trades :
          /\ last.before.trades[i].type = "sell"
          /\ last.before.trades[i].symbol = last.symbol

\* C8: no Portfolio holds two positions for the same symbol.
UniqueSymbols ==
    \A p \in DOMAIN portfolios :
        LET v == View(Heap, p)
        IN  \A i, j \in DOMAIN v.positions :
                v.positions[i].symbol = v.positions[j].symbol => i = j

\* C8 witness: a buy of a symbol whose position an earlier sell removed leaves
\* exactly one position for it.
UniqueSymbolsWitness ==
    /\ LastBuySucceeded
    /\ Held(last.before, last.symbol) = {}
    /\ \E i \in DOMAIN last.before.trades :
          /\ last.before.trades[i].type = "sell"
          /\ last.before.trades[i].symbol = last.symbol
    /\ Cardinality(Held(View(Heap, last.result), last.symbol)) = 1

\* C9: the history is append-only.  A successful call returns the input's
\* trades followed by one Trade with the call's symbol, type, shares, price
\* and total = shares x price; a failed call returns them unchanged.  Every
\* Portfolio but the first has the trades of an earlier one plus one, the first
\* has none, and timestamps never decrease along a history.
HistoryAppendOnly ==
    /\ last.called =>
          LET b == last.before.trades
              a == View(Heap, last.result).trades
          IN  IF last.success
              THEN /\ Len(a) = Len(b) + 1
                   /\ SubSeq(a, 1, Len(b)) = b
                   /\ a[Len(a)].symbol = last.symbol
                   /\ a[Len(a)].type = last.type
                   /\ a[Len(a)].shares = lastShares
                   /\ a[Len(a)].price = lastPrice
                   /\ a[Len(a)].total = lastTotal
              ELSE a = b
    /\ tradeArrays[portfolios[1].trades] = <<>>
    /\ \A q \in DOMAIN portfolios :
          LET tq == tradeArrays[portfolios[q].trades]
          IN  /\ q > 1 =>
                    \E p \in 1..(q - 1) :
                        /\ Len(tq) = Len(tradeArrays[portfolios[p].trades]) + 1
                        /\ SubSeq(tq, 1, Len(tq) - 1)
                               = tradeArrays[portfolios[p].trades]
              /\ \A i, j \in DOMAIN tq :
                    i < j => tq[i].timestamp <= tq[j].timestamp

\* C9 witness: a failed call on a Portfolio whose two trades were made at
\* different times.
HistoryAppendOnlyWitness ==
    /\ last.called /\ ~last.success
    /\ Len(last.before.trades) = 2
    /\ last.before.trades[1].timestamp < last.before.trades[2].timestamp

\* C10: the Trade ids in the history of every Portfolio are pairwise distinct.
TradeIdsUnique ==
    \A p \in DOMAIN portfolios :
        LET t == tradeArrays[portfolios[p].trades]
        IN  \A i, j \in DOMAIN t : t[i].id = t[j].id => i = j

\* C11: getPortfolioReturn returns absolute = getPortfolioValue(portfolio) -
\* startingCash and percent = absolute / startingCash * 100; when
\* startingCash <= 0 the percent is 0, and the absolute is still
\* getPortfolioValue(portfolio) - startingCash (it is 0 only when the value
\* equals startingCash).
retValue == getPortfolioValue(ret.portfolio).v

retStartingCash == ret.portfolio.startingCash.v

ReturnOfPortfolio ==
    ret.called =>
        /\ ret.absolute = Fin(retValue - retStartingCash)
        /\ retStartingCash > 0 =>
               ret.percent =
                   Fin(100 * RoundDiv((retValue - retStartingCash) * Scale,
                                      retStartingCash))
        /\ retStartingCash <= 0 => ret.percent = Fin(0)

\* A call on a Portfolio whose startingCash is not positive and whose value
\* differs from it.
ReturnOfPortfolioWitness ==
    /\ ret.called
    /\ retStartingCash <= 0
    /\ ret.portfolio.positions # <<>>
    /\ ret.absolute # Fin(0)
    /\ ret.percent = Fin(0)

\* C11 as stated: when startingCash <= 0 both results are 0.
ReturnZeroWithoutStartingCash ==
    ret.called /\ retStartingCash <= 0 =>
        ret.absolute = Fin(0) /\ ret.percent = Fin(0)


\* C16: every value returned by a generator made by seededRandom(seed) lies
\* strictly between 0 and 1, for every integer seed and for the seed of
\* every symbol string.
RandomInOpenInterval ==
    rng.called => 0 < rng.value.num /\ rng.value.num < rng.value.den


\* C17: the time values of the candles generateCandlestickData returns are
\* strictly increasing and none is a Saturday or a Sunday, whatever the
\* current date, time of day and time zone; for days <= 0 the result is
\* empty.
CandleDatesAreWeekdays ==
    gen.called =>
        /\ \A i \in 1..Len(gen.candles) :
               weekday(gen.candles[i].time) \notin {0, 6}
        /\ \A i \in 1..(Len(gen.candles) - 1) :
               gen.candles[i].time < gen.candles[i + 1].time
        /\ gen.days <= 0 => gen.candles = <<>>

\* C18: every candle has high >= max(open, close), low <= min(open, close),
\* open, high, low and close above 0 and volume above 0, for every symbol,
\* positive start price, positive volatility and positive trend.
CandlesWellFormed ==
    gen.called /\ gen.startPrice > 0 /\ gen.volatility > 0 /\ gen.trend > 0 =>
        \A i \in 1..Len(gen.candles) :
            LET c == gen.candles[i]
            IN  /\ isFinite(c.open) /\ isFinite(c.high) /\ isFinite(c.low)
                /\ isFinite(c.close) /\ isFinite(c.volume)
                /\ c.high.v >= Max(c.open.v, c.close.v)
                /\ c.low.v <= Min(c.open.v, c.close.v)
                /\ c.open.v > 0 /\ c.high.v > 0 /\ c.low.v > 0 /\ c.close.v > 0
                /\ c.volume.v > 0


\* C12: the candle cache never holds more than MAX_CACHE_SIZE entries,
\* whatever the sequence of getCandleData, getCandleDataAsync (several of
\* them waiting at once) and clearCandleCache calls; generated and live
\* entries share the one Map.
CacheNeverExceedsCapacity == Len(candleCache) <= MAX_CACHE_SIZE

\* A full cache holding a generated and a live entry, reached by a miss that
\* evicted, while two getCandleDataAsync calls wait.
CacheNeverExceedsCapacityWitness ==
    /\ Len(candleCache) = MAX_CACHE_SIZE
    /\ \E symbol \in CacheSymbols :
           mapIndex(candleCache, liveKey(symbol)) > 0
    /\ \E symbol \in CacheSymbols :
           /\ mapIndex(candleCache, symbol) > 0
           /\ candleCache[mapIndex(candleCache, symbol)].data
                  = generatedSeries[symbol, today]
    /\ Len(inFlight) = MaxInFlight
    /\ lastGet.called /\ lastGet.op = "getCandleDataAsync"
    /\ lastGet.miss /\ lastGet.removed # {}

SameContentBetweenClears ==
    (lastGet.called /\ lastGet.op = "getCandleData") =>
        /\ served[lastGet.symbol] # <<>>
        /\ lastGet.candles =
               slice(served[lastGet.symbol][1], TIMEFRAME_DAYS[lastGet.timeframe])

\* C15: getCandleData(s, t) returns the last min(N, L) candles of the full
\* series cached for s, N the days of t and L the length of the series; so
\* the result for a shorter timeframe is a suffix of the result for a longer
\* one and the last candle is the same for all timeframes.
lastFull == candleCache[mapIndex(candleCache, lastGet.symbol)].data

IsSuffix(a, b) ==
    /\ Len(a) <= Len(b)
    /\ \A i \in 1..Len(a) : a[i] = b[Len(b) - Len(a) + i]

SliceIsSuffixOfSeries ==
    (lastGet.called /\ lastGet.op # "clearCandleCache" /\ ~lastGet.isLive) =>
        /\ mapIndex(candleCache, lastGet.symbol) > 0
        /\ LET N == TIMEFRAME_DAYS[lastGet.timeframe]
               L == Len(lastFull)
               n == IF N <= L THEN N ELSE L
           IN  lastGet.candles = [i \in 1..n |-> lastFull[L - n + i]]
        /\ \A t1, t2 \in Timeframes :
               TIMEFRAME_DAYS[t1] <= TIMEFRAME_DAYS[t2] =>
                   LET short == slice(lastFull, TIMEFRAME_DAYS[t1])
                       long == slice(lastFull, TIMEFRAME_DAYS[t2])
                   IN  /\ IsSuffix(short, long)
                       /\ lastFull # <<>> =>
                              short[Len(short)] = long[Len(long)]

\* getCandleData on the longest timeframe, longer than the series, and the
\* series is longer than the shortest timeframe.
SliceIsSuffixOfSeriesWitness ==
    /\ lastGet.called /\ lastGet.op = "getCandleData"
    /\ lastGet.timeframe = "1Y"
    /\ Len(lastGet.candles) < TIMEFRAME_DAYS["1Y"]
    /\ Len(lastGet.candles) > TIMEFRAME_DAYS["1M"]
    /\ lastGet.candles = lastFull


\* C19: every indicator returns an empty result when period <= 0 or the
\* series is too short, and otherwise exactly data.length - period + 1
\* points (SMA, EMA, each Bollinger band) or data.length - period points
\* (RSI); MACD returns three empty arrays when data.length < 26; point i
\* (from 0) carries the time of candle i + period - 1 (i + period for RSI).
TimesFrom(points, data, offset) ==
    \A i \in 1..Len(points) : points[i].time = data[i + offset].time

IndicatorLengths ==
    ind.called =>
        LET n == Len(ind.data)
            p == ind.period
            windows == IF n >= p /\ p > 0 THEN n - p + 1 ELSE 0
            changes == IF n >= p + 1 /\ p > 0 THEN n - p ELSE 0
        IN  /\ Len(ind.sma) = windows /\ TimesFrom(ind.sma, ind.data, p - 1)
            /\ Len(ind.ema) = windows /\ TimesFrom(ind.ema, ind.data, p - 1)
            /\ \A band \in {ind.bollinger.upper, ind.bollinger.middle,
                             ind.bollinger.lower} :
                   Len(band) = windows /\ TimesFrom(band, ind.data, p - 1)
            /\ Len(ind.rsi) = changes /\ TimesFrom(ind.rsi, ind.data, p)
            /\ n < SlowPeriod =>
                   ind.macd = [macd |-> <<>>, signal |-> <<>>, histogram |-> <<>>]

\* A series of exactly `period` candles: one SMA, EMA and Bollinger point,
\* no RSI point, no MACD.
IndicatorLengthsWitness ==
    /\ ind.called
    /\ ind.period > 1
    /\ Len(ind.data) = ind.period
    /\ Len(ind.sma) = 1 /\ Len(ind.ema) = 1 /\ Len(ind.bollinger.upper) = 1
    /\ ind.rsi = <<>>
    /\ ind.macd.macd = <<>>

\* C20: calculateRSI outputs exactly 100 at every point where the average
\* loss is 0, the first point included, and
\* 100 - 100 / (1 + avgGain / avgLoss) elsewhere, so every output is in
\* [0, 100].
RsiHundredWithoutLoss ==
    ind.called =>
        \A i \in 1..Len(ind.rsi) :
            LET point == ind.rsi[i]
            IN  /\ point.avgLoss = 0 => point.value = 100 * GenScale
                /\ point.avgLoss # 0 =>
                       point.value =
                           fix2(100 * GenScale
                                    - divG(100 * GenScale,
                                           GenScale + divG(point.avgGain,
                                                           point.avgLoss)))
                /\ 0 <= point.value /\ point.value <= 100 * GenScale


\* The parts of C21 that do not depend on how the first signal value is
\* rounded: one macd point per time of the 26-period EMA, the signal from
\* the 9th macd point on, one histogram point per signal point with value
\* macd - signal and the color of its sign.
macdSumFirst == sumValues(ind.macd.macd, 1, signalPeriod)

MacdAligned ==
    LET m == ind.macd
        ema26 == calculateEMA(ind.data, SlowPeriod)
    IN  /\ Len(m.macd) = Len(ema26)
        /\ \A i \in 1..Len(m.macd) : m.macd[i].time = ema26[i].time
        /\ IF Len(m.macd) < signalPeriod THEN m.signal = <<>>
           ELSE /\ Len(m.signal) = Len(m.macd) - signalPeriod + 1
                /\ \A i \in 1..Len(m.signal) :
                       m.signal[i].time = m.macd[i + signalPeriod - 1].time
        /\ Len(m.histogram) = Len(m.signal)
        /\ \A i \in 1..Len(m.histogram) :
               LET h == m.histogram[i]
               IN  /\ h.time = m.signal[i].time
                   /\ h.value = m.macd[i + signalPeriod - 1].value - m.signal[i].value
                   /\ (h.color = "#22c55e") = (h.value >= 0)
                   /\ h.color \in {"#22c55e", "#ef4444"}

\* C21 as stated: the macd line, signal line and histogram of calculateMACD
\* are aligned as above and the first signal value is the mean of the first
\* 9 macd values.
MacdSignalStartsAtMean ==
    ind.called =>
        /\ MacdAligned
        /\ ind.macd.signal # <<>> =>
               ind.macd.signal[1].value * signalPeriod = macdSumFirst

\* C21: the macd line has one point per time of the 26-period EMA; the
\* signal line is empty below 9 macd points and otherwise has one point per
\* macd time from the 9th on, its first value being the mean of the first 9
\* macd values rounded to 4 decimals; the histogram has one point per signal
\* time with value macd - signal and the green color iff that value is >= 0.
MacdSignalStartsAtRoundedMean ==
    ind.called =>
        /\ MacdAligned
        /\ ind.macd.signal # <<>> =>
               ind.macd.signal[1].value = RoundDiv(macdSumFirst, signalPeriod)

\* A series long enough for a signal whose first value had to be rounded,
\* with a histogram point of each color.
MacdSignalStartsAtRoundedMeanWitness ==
    /\ ind.called
    /\ Len(ind.macd.signal) >= 2
    /\ macdSumFirst % signalPeriod # 0
    /\ \E i \in 1..Len(ind.macd.histogram) : ind.macd.histogram[i].value # 0

\* C22: computeMarketMood picks the first tier, in the order 0.70, 0.55,
\* 0.45, 0.30, -infinity, whose threshold the breadth meets or exceeds;
\* breadth = advancers / stocks.length and 0.5 for an empty list; the
\* boundaries are inclusive; the label is one of the five; advancers +
\* decliners <= total and breadth is in [0, 1].
moodTotal == Len(mood.stocks)

moodUps == Cardinality({i \in 1..moodTotal : mood.stocks[i].change > 0})

moodDowns == Cardinality({i \in 1..moodTotal : mood.stocks[i].change < 0})

MoodIsFirstTierMet ==
    mood.called =>
        LET r == mood.result
            b == r.breadth
            pct == b.num * 100
        IN  /\ r.advancers = moodUps /\ r.decliners = moodDowns
            /\ IF moodTotal = 0 THEN b.num * 2 = b.den
               ELSE b.num * moodTotal = moodUps * b.den
            /\ b.den > 0 /\ 0 <= b.num /\ b.num <= b.den
            /\ r.advancers + r.decliners <= moodTotal
            /\ r.label = CASE pct >= 70 * b.den -> "Strong Rally"
                           [] pct < 70 * b.den /\ pct >= 55 * b.den -> "Bullish"
                           [] pct < 55 * b.den /\ pct >= 45 * b.den -> "Mixed"
                           [] pct < 45 * b.den /\ pct >= 30 * b.den -> "Bearish"
                           [] pct < 30 * b.den -> "Selloff"
            /\ moodTotal = 0 => r.label = "Mixed"

\* A list with unchanged stocks whose breadth is exactly 0.30, labelled
\* "Bearish".
MoodIsFirstTierMetWitness ==
    /\ mood.called
    /\ moodTotal > 0
    /\ moodUps * 100 = 30 * moodTotal
    /\ moodUps + moodDowns < moodTotal
    /\ mood.result.label = "Bearish"

\* C23: generateSparkline(symbol, change) returns exactly 30 finite values,
\* each in [0, 1], with the minimum of the walk mapped to 0 and the maximum
\* mapped to 1, for every symbol and every change.
sparkValues == spark.result.values

SparklineNormalized ==
    spark.called =>
        /\ Len(sparkValues) = SPARKLINE_POINTS
        /\ \A i \in 1..Len(sparkValues) :
               LET v == sparkValues[i]
               IN  /\ v.k = "fin"
                   /\ v.den > 0 /\ 0 <= v.num /\ v.num <= v.den
        /\ \E i \in 1..Len(sparkValues) : sparkValues[i].num = 0
        /\ \/ \E i \in 1..Len(sparkValues) :
                  sparkValues[i].num = sparkValues[i].den
           \/ \A i, j \in 1..Len(sparkValues) :
                  spark.result.raw[i] = spark.result.raw[j]

\* The same for a symbol of at least one character and a finite change.
SparklineNormalizedOnNamedSymbols ==
    (spark.called /\ spark.symbol # <<>> /\ isFinite(spark.dayChange)) =>
        SparklineNormalized

\* C24 as stated: for 0 < period <= data.length, every point of the
\* rolling-sum calculateSMA equals the point of the slice-and-sum version:
\* the mean of the closes of its window rounded to 2 decimals.
smaInDomain == ind.called /\ 0 < ind.period /\ ind.period <= Len(ind.data)

smaSameShape ==
    /\ Len(ind.sma) = Len(ind.smaBySlices)
    /\ \A i \in 1..Len(ind.sma) : ind.sma[i].time = ind.smaBySlices[i].time

RollingSmaEqualsWindowMean ==
    smaInDomain =>
        /\ smaSameShape
        /\ \A i \in 1..Len(ind.sma) : ind.sma[i].value = ind.smaBySlices[i].value

\* C24: the rolling-sum calculateSMA has the points of the slice-and-sum
\* version at the same times; the first point is always equal, and point i
\* is equal whenever no addition or subtraction of either sum was rounded.
RollingSmaEqualsWindowMeanWhenExact ==
    smaInDomain =>
        /\ smaSameShape
        /\ ind.sma[1].value = ind.smaBySlices[1].value
        /\ \A i \in 1..Len(ind.sma) :
               (ind.sma[i].exact /\ ind.smaBySlices[i].exact) =>
                   ind.sma[i].value = ind.smaBySlices[i].value

\* A window slid at least twice with every sum exact, over closes that are
\* not all equal.
RollingSmaEqualsWindowMeanWhenExactWitness ==
    /\ smaInDomain
    /\ ind.period > 1
    /\ Len(ind.sma) >= 3
    /\ ind.sma[3].exact /\ ind.smaBySlices[3].exact
    /\ ind.sma[3].value # ind.sma[1].value

\* C25: the sync getCandleData always returns generated data: whatever
\* getCandleDataAsync calls stored in the shared Map, getCandleData(s, t)
\* returns a slice of the series generateCandlestickData produces for s,
\* never a series fetched from the live service.
generatedSlice(symbol, timeframe) ==
    slice(generatedSeries[symbol, today], TIMEFRAME_DAYS[timeframe])

SyncReturnsGenerated ==
    (lastGet.called /\ lastGet.op = "getCandleData") =>
        lastGet.candles = generatedSlice(lastGet.symbol, lastGet.timeframe)

\* The same for symbols that are not the live key of another symbol.
SyncReturnsGeneratedForTickers ==
    (lastGet.called /\ lastGet.op = "getCandleData"
         /\ \A s \in CacheSymbols : lastGet.symbol # liveKey(s)) =>
        lastGet.candles = generatedSlice(lastGet.symbol, lastGet.timeframe)

\* C26: getCandleDataAsync resolves with isLive = true only when the
\* candles come from a non-empty live fetch or a cached live entry; when the
\* fetch yields null or an empty array it resolves with the generated series
\* of the symbol and timeframe and isLive = false, and stores no live entry.
liveSlice(symbol, timeframe) ==
    slice(liveBars(symbol), TIMEFRAME_DAYS[timeframe])

LiveLabelTruthful ==
    [][(lastGet'.called /\ lastGet'.op = "getCandleDataAsync") =>
           IF lastGet'.isLive
           THEN lastGet'.candles = liveSlice(lastGet'.symbol, lastGet'.timeframe)
           ELSE /\ lastGet'.candles =
                       generatedSlice(lastGet'.symbol, lastGet'.timeframe)
                /\ liveKey(lastGet'.symbol) \notin
                       (keysOf(candleCache') \ keysOf(candleCache))]_vars

\* C27: no stale candle update.  The completion of a load issued for
\* (s, t) writes the store only if s and t are selected at that moment, so
\* candleData is at all times a series for the selected symbol and
\* timeframe, and isCandlesLive says whether that series is live.
NoStaleCandleUpdate ==
    /\ store.completed.called =>
           (store.completed.wrote <=>
                /\ store.completed.symbol = store.completed.selectedSymbol
                /\ store.completed.timeframe = store.completed.chartTimeframe)
    /\ store.candleData.symbol = store.selectedSymbol
    /\ store.candleData.timeframe = store.chartTimeframe
    /\ store.candleData.isLive = store.isCandlesLive

\* A load overtaken by a change of timeframe completes and is dropped,
\* while the store shows a live series of the new selection.
NoStaleCandleUpdateWitness ==
    /\ store.completed.called
    /\ ~store.completed.wrote
    /\ store.completed.symbol = store.selectedSymbol
    /\ store.completed.timeframe # store.chartTimeframe
    /\ store.isCandlesLive

\* C28: hysteresis.  degraded turns true only at a sample completing a run
\* of at least 3 consecutive samples with fps < 30, and false only at one
\* completing a run of at least 3 consecutive samples with fps > 45; a
\* sample in 30..45 resets both counters and leaves degraded as it was.
lowRunAtEnd(samples) ==
    LET n == Len(samples)
    IN  CHOOSE k \in 0..n :
            /\ \A i \in (n - k + 1)..n : samples[i] < 30
            /\ k < n => ~(samples[n - k] < 30)

highRunAtEnd(samples) ==
    LET n == Len(samples)
    IN  CHOOSE k \in 0..n :
            /\ \A i \in (n - k + 1)..n : samples[i] > 45
            /\ k < n => ~(samples[n - k] > 45)

DegradedHasHysteresis ==
    perf.samples # <<>> =>
        LET fps == perf.samples[Len(perf.samples)]
            lowRun == lowRunAtEnd(perf.samples)
            highRun == highRunAtEnd(perf.samples)
        IN  /\ (~perf.wasDegraded /\ perf.state.degraded) => lowRun >= 3
            /\ (perf.wasDegraded /\ ~perf.state.degraded) => highRun >= 3
            /\ (30 <= fps /\ fps <= 45) =>
                   /\ perf.state.degraded = perf.wasDegraded
                   /\ perf.lowCount = 0 /\ perf.highCount = 0
            /\ perf.state.degraded = perf.degradedRef

\* degraded was set by three low samples, survived a sample in the band
\* and two high ones, and is cleared by the third high sample in a row.
DegradedHasHysteresisWitness ==
    /\ Len(perf.samples) >= 7
    /\ perf.wasDegraded /\ ~perf.state.degraded
    /\ \E i \in 1..Len(perf.samples) :
           30 <= perf.samples[i] /\ perf.samples[i] <= 45

\* C29: at most one auto-refresh timer is active at any time, whatever
\* initLiveData calls overlap: the only timer registered is the one
\* refreshInterval holds, so no handle is lost while its timer runs, and a
\* refresh is triggered only by that timer.
AtMostOneRefreshTimer ==
    /\ Cardinality(refresh.timers) <= 1
    /\ refresh.timers =
           IF refresh.refreshInterval = 0 THEN {} ELSE {refresh.refreshInterval}
    /\ refresh.fired.called => refresh.fired.held

\* Two initLiveData calls overlapped, both started auto-refresh, and the
\* timer of the second has fired.
AtMostOneRefreshTimerWitness ==
    /\ refresh.overlapped
    /\ refresh.nextHandle > 2
    /\ refresh.fired.called
    /\ refresh.fired.handle = refresh.refreshInterval
    /\ refresh.fired.handle > 1

\* C30: a successful trade on symbol S changes nothing in the Portfolio but
\* cash, the trade history and the position for S: every other position
\* keeps its shares, avgCost and currentPrice, the positions keep their
\* relative order, startingCash is unchanged, and a sell that leaves shares
\* in S's position leaves its avgCost unchanged.
positionsOtherThan(positions, symbol) ==
    SelectSeq(positions, LAMBDA p : p.symbol # symbol)

indexOfSymbol(positions, symbol) ==
    IF \E i \in 1..Len(positions) : positions[i].symbol = symbol
    THEN CHOOSE i \in 1..Len(positions) : positions[i].symbol = symbol
    ELSE 0

TradeTouchesOnlyItsSymbol ==
    (last.called /\ last.success) =>
        LET before == last.before
            after == View(Heap, last.result)
            was == indexOfSymbol(before.positions, last.symbol)
            is == indexOfSymbol(after.positions, last.symbol)
        IN  /\ positionsOtherThan(after.positions, last.symbol)
                   = positionsOtherThan(before.positions, last.symbol)
            /\ (was # 0 /\ is # 0) => is = was
            /\ (was = 0 /\ is # 0) => is = Len(after.positions)
            /\ after.startingCash = before.startingCash
            /\ (last.type = "sell" /\ is # 0) =>
                   after.positions[is].avgCost = before.positions[was].avgCost

\* A sell of part of the first of two positions, bought at another price
\* than it is sold at.
TradeTouchesOnlyItsSymbolWitness ==
    /\ last.called /\ last.success /\ last.type = "sell"
    /\ Len(last.before.positions) = 2
    /\ last.before.positions[1].symbol = last.symbol
    /\ Len(View(Heap, last.result).positions) = 2
    /\ last.before.positions[1].avgCost # last.price.v

====
